---------------------------- MODULE Spec2Model ----------------------------
(***************************************************************************)
(* Model of the telephony audio bridge of birddigital/signalwire-telephony.*)
(*                                                                         *)
(*   AudioStreamBridge      (src/unnamed/part_000)                         *)
(*       the registry of BridgeSessions, the two routers of each bound     *)
(*       link, CloseSession and Close.                                     *)
(*   SignalWireAudioBridge / SignalWireCallSession                         *)
(*       (src/pkg/telephony/signalwire-audio-bridge.go)                    *)
(*       the WebSocket link: HandleWebSocketConnection, readPump,          *)
(*       writePump, SendEvent, streamAudioToSignalWire, Close.             *)
(*                                                                         *)
(* Go semantics that the model keeps:                                      *)
(*   - a send on a closed channel and a close of a closed channel panic,   *)
(*     and a panic in any goroutine ends the process;                      *)
(*   - a receive from a closed, drained channel returns nil at once;       *)
(*   - sync.RWMutex is not reentrant;                                      *)
(*   - select { case ch <- x: ; case <-time.After(10ms): } sends when the  *)
(*     channel has room and drops only while the channel is full;          *)
(*   - a child context is done as soon as its parent is cancelled.         *)
(*                                                                         *)
(* A frame is a tuple: <<l, n>> is the n-th inbound media frame received   *)
(* on link l, <<0, n>> the n-th frame published by the pipeline, and <<>>  *)
(* is a frame of length 0 (also what a receive from a closed channel       *)
(* yields).                                                                *)
(***************************************************************************)
EXTENDS Integers, Sequences, FiniteSets, TLC

(***************************************************************************)
(* Bounds of the model.                                                    *)
(***************************************************************************)
\* Session queue depth; stands for make(chan []byte, 500).
SessionQueueCap == 2
\* Link queue depth; stands for make(chan []byte, 100).
LinkQueueCap == 2
\* Inbound media frames the peer sends on one link.
MaxInFrames == 3
\* Frames the pipeline publishes on one session.
MaxOutFrames == 3
\* WebSocket connections the model has room for.
MaxLinks == 2
\* WebSocket connections accepted where one call is followed.
OneCall == 1
\* Concurrent callers of CloseSession (status webhooks, API users).
NumClosers == 2
\* Events of the peer that one link's handling is followed for.
MaxEvents == 4
\* The read deadline of 60 s, in ticks of the clock.
DeadlineTicks == 2
\* Bytes of the longest PCM16 buffer given to the converter.
MaxPcmBytes == 6
\* Bytes of the longest buffer given to MixAudio and SplitAudioBuffer.
MaxMixBytes == 3
\* Streams given to one MixAudio.
MaxStreams == 2
\* Bytes of one audio chunk.
FrameBytes == 2
\* The largest latency, in microseconds, a timed step measures.
LatencyBoundUs == 2
\* Latencies given to updateLatency where it is followed on its own.
MaxObservations == 4

SessionIDs == {"S1"}
\* CallSid values of the provider's webhooks.
CallSids == {"CA1"}
Links == 1..MaxLinks
Closers == 1..NumClosers
NoLink == 0
Empty == <<>>

\* Goroutines that call CloseSession; one of them owns bridge.mu while inside.
Free == <<"free", 0>>
CloseThread == <<"Close", 0>>
CloserThread(c) == <<"closer", c>>
CloseCallers == {CloseThread} \cup {CloserThread(c) : c \in Closers}

\* Callers of SignalWireCallSession.Close, owners of cs.mu while inside it.
ReaderThread == <<"readPump", 0>>
BridgeThread == <<"bridge.Close", 0>>
LinkClosers == {ReaderThread, BridgeThread}

VARIABLES
    \* ---- AudioStreamBridge
    sessions,     \* keys of bridge.sessions
    created,      \* ids CreateSession has ever registered (ids are uuids)
    mu,           \* owner of bridge.mu
    rootDone,     \* bridge.ctx is cancelled
    sess,         \* the BridgeSession of each id
    \* ---- SignalWireAudioBridge
    calls,        \* keys of bridge.calls
    swDone,       \* SignalWireAudioBridge.ctx is cancelled
    link,         \* the SignalWireCallSession of each link
    \* ---- tasks
    hs,           \* HandleWebSocketConnection of each link
    rd,           \* readPump of each link
    wr,           \* writePump of each link
    p2a,          \* routePhoneToAI started for each link
    a2p,          \* routeAIToPhone started for each link
    closer,       \* the CloseSession call of each caller
    bclose,       \* AudioStreamBridge.Close
    swclose,      \* SignalWireAudioBridge.Close
    csClose,      \* the SignalWireCallSession.Close call of each caller
    \* ---- environment
    env,          \* the pipeline (consumer, producer) and the peer
    \* ---- observation
    panicked,     \* "" or the Go runtime panic that ended the process
    obs           \* history of what the program did

vars == <<sessions, created, mu, rootDone, sess, calls, swDone, link,
          hs, rd, wr, p2a, a2p, closer, bclose, swclose, csClose, env,
          panicked, obs>>

registryVars == <<sessions, created, mu, rootDone>>
taskVars == <<hs, rd, wr, p2a, a2p, closer, bclose, swclose, csClose>>
linkTasks == <<hs, rd, wr, p2a, a2p, swclose, csClose>>

(***************************************************************************)
(* Construction.                                                           *)
(***************************************************************************)
\* BridgeMetrics{}
NewBridgeMetrics ==
    [PhoneToAIPacketsSent |-> 0, PhoneToAIPacketsDropped |-> 0,
     AIToPhonePacketsSent |-> 0, AIToPhonePacketsDropped |-> 0,
     AverageLatencyUs |-> 0, MaxLatencyUs |-> 0,
     BytesReceived |-> 0, BytesSent |-> 0,
     DroppedPackets |-> 0, Overruns |-> 0, Underruns |-> 0]

\* The BridgeSession literal of CreateSession; before it, the zero value.
NewBridgeSession(active) ==
    [SignalWireSession |-> NoLink,
     phoneToAIChan |-> <<>>, phoneToAIClosed |-> FALSE,
     aiToPhoneChan |-> <<>>, aiToPhoneClosed |-> FALSE,
     Active |-> active, Streaming |-> FALSE,
     StartedAt |-> FALSE, EndedAt |-> FALSE,
     cancelled |-> FALSE,
     Metrics |-> NewBridgeMetrics]

\* The SignalWireCallSession literal of HandleWebSocketConnection.
NewCallSession(id) ==
    [SessionID |-> id,
     SignalWireCallSID |-> "",
     AudioInChan |-> <<>>, AudioInClosed |-> FALSE,
     AudioOutChan |-> <<>>, AudioOutClosed |-> FALSE,
     Closed |-> FALSE, ClosedCount |-> 0,
     connClosed |-> FALSE,
     mu |-> Free]

NoCallSession == NewCallSession("")

\* What is recorded about one session's run.
NewSessionObs ==
    [p2aCloses |-> 0,        \* close(session.phoneToAIChan) executed
     a2pCloses |-> 0,        \* close(session.aiToPhoneChan) executed
     offered |-> <<>>,       \* frames routePhoneToAI tried to enqueue, in order
     delivered |-> <<>>,     \* frames the pipeline read from phoneToAIChan
     overflow |-> 0,         \* frames discarded at a full queue of this call
     latencies |-> <<>>,     \* the latencies UpdateLatency was called with
     createErr |-> "none",   \* what the last CreateSession for this id returned
     creates |-> 0]          \* sessions CreateSession registered under this id

\* What is recorded about one link's run.
NewLinkObs ==
    [inCloses |-> 0,         \* close(cs.AudioInChan) executed
     outCloses |-> 0,        \* close(cs.AudioOutChan) executed
     connCloses |-> 0,       \* cs.Conn.Close() executed by cs.Close
     closeCalls |-> 0,       \* returned calls of cs.Close
     wsMedia |-> <<>>,       \* media frames written to the WebSocket
     lateWrites |-> {},      \* kinds of message written while Closed = true
     writeFailed |-> FALSE,  \* a write of writePump failed on an open connection
     accepted |-> <<>>,      \* events handleSignalWireMessage acted on
     sent |-> <<>>,          \* control events written to the WebSocket
     seen |-> 0,             \* messages HandleMessage was given
     last |-> [json |-> FALSE, event |-> "", media |-> FALSE, track |-> "",
               payload |-> ""],  \* the last of them
     logged |-> {}]          \* errors of handleSignalWireMessage readPump logged

\* What is recorded about the HTTP endpoints.
NoRequest == [path |-> "", session_id |-> "", call_sid |-> ""]

NoResponse == [req |-> NoRequest, status |-> 0, returned |-> FALSE,
               registered |-> FALSE, link |-> NoLink]

NoWebhook == [CallSid |-> "", CallStatus |-> "", allocated |-> "",
              closing |-> ""]

\* The last call of a converter function: its name, arguments and result.
NoConversion == [fn |-> "", args |-> <<>>, err |-> "nil", out |-> <<>>]

NewHttpObs ==
    [allocated |-> [c \in CallSids |-> ""],  \* session HandleIncomingCall made
     response |-> NoResponse,  \* the last answer of the stream endpoint
     webhook |-> NoWebhook]    \* the last status webhook handled

Init ==
    /\ sessions = {}
    /\ created = {}
    /\ mu = Free
    /\ rootDone = FALSE
    /\ sess = [s \in SessionIDs |-> NewBridgeSession(FALSE)]
    /\ calls = {}
    /\ swDone = FALSE
    /\ link = [l \in Links |-> NoCallSession]
    /\ hs = [l \in Links |-> "idle"]
    /\ rd = [l \in Links |-> [pc |-> "off", msg |-> Empty]]
    /\ wr = [l \in Links |-> [pc |-> "off", chunk |-> Empty]]
    /\ p2a = [l \in Links |-> [pc |-> "off", sw |-> NoLink, chunk |-> Empty]]
    /\ a2p = [l \in Links |-> [pc |-> "off", sw |-> NoLink, chunk |-> Empty]]
    /\ closer = [t \in CloseCallers |-> [pc |-> "idle", id |-> "", ret |-> "none"]]
    /\ bclose = "idle"
    /\ swclose = [pc |-> "idle", todo |-> {}]
    /\ csClose = [l \in Links |-> [th \in LinkClosers |-> "idle"]]
    /\ env = [nextIn |-> [l \in Links |-> 1],
              nextOut |-> [s \in SessionIDs |-> 1],
              urls |-> {},
              deadline |-> [l \in Links |-> DeadlineTicks],
              quiet |-> [l \in Links |-> 0],
              timedOut |-> [l \in Links |-> FALSE]]
    /\ panicked = ""
    /\ obs = [sess |-> [s \in SessionIDs |-> NewSessionObs],
              link |-> [l \in Links |-> NewLinkObs],
              http |-> NewHttpObs,
              conv |-> NoConversion]

\* A panic in any goroutine ends the process: nothing runs after it.
Running == panicked = ""

(***************************************************************************)
(* Contexts: session.ctx is a child of bridge.ctx.                         *)
(***************************************************************************)
SessionCtxDone(s) == rootDone \/ sess[s].cancelled

(***************************************************************************)
(* AudioStreamBridge: session management.                                  *)
(***************************************************************************)
\* GetSession, lines 158-163: the registered session, or nil.
GetSession(id) == IF id \in sessions THEN id ELSE ""

\* A CreateSession that did not look for a registered session of the id.
CreateSessionErrorNever(id) == "nil"

\* CreateSession, lines 119-122: the error for an id that is registered.
CreateSessionError(id) ==
    IF id \in sessions THEN "session already exists" ELSE "nil"

\* Ids are uuids: an id that was ever registered is not handed out again.
FreshIDs == SessionIDs \ created

\* CreateSession, lines 115-155, under bridge.mu.
CreateSession(id) ==
    /\ Running
    /\ mu = Free
    /\ IF CreateSessionError(id) # "nil"
       THEN UNCHANGED <<sessions, created, sess>>
       ELSE /\ id \in FreshIDs \cup sessions
            /\ sessions' = sessions \cup {id}
            /\ created' = created \cup {id}
            /\ sess' = [sess EXCEPT ![id] = NewBridgeSession(TRUE)]
    /\ obs' = [obs EXCEPT
                  !.sess[id].createErr = CreateSessionError(id),
                  !.sess[id].creates =
                      IF CreateSessionError(id) = "nil" THEN @ + 1 ELSE @]
    /\ UNCHANGED <<mu, rootDone, calls, swDone, link, taskVars, env,
                   panicked>>

\* CloseSession is called: a status webhook for a terminal CallStatus, or any
\* other user of the API.
CallCloseSession(c, id) ==
    /\ Running
    /\ closer[CloserThread(c)].pc = "idle"
    /\ closer' = [closer EXCEPT ![CloserThread(c)] =
                      [pc |-> "enter", id |-> id, ret |-> "none"]]
    /\ UNCHANGED <<registryVars, sess, calls, swDone, link, linkTasks,
                   bclose, env, panicked, obs>>

\* A CloseSession that skipped the lookup and treated every id as registered.
SessionExistsAlways(id) == TRUE

\* CloseSession, lines 492-496: the lookup in bridge.sessions, under bridge.mu.
SessionExists(id) == id \in sessions

\* CloseSession, lines 490-501: bridge.mu.Lock(); an unknown id returns
\* "session not found"; otherwise Active = false and session.cancel().
CloseSessionEnter(t) ==
    LET id == closer[t].id IN
    /\ Running
    /\ closer[t].pc = "enter"
    /\ mu = Free
    /\ IF ~SessionExists(id)
       THEN /\ closer' = [closer EXCEPT ![t].pc = "idle",
                                        ![t].ret = "session not found"]
            /\ UNCHANGED <<mu, sess>>
       ELSE /\ mu' = t
            /\ sess' = [sess EXCEPT ![id].Active = FALSE,
                                    ![id].cancelled = TRUE]
            /\ closer' = [closer EXCEPT ![t].pc = "closePhoneToAI"]
    /\ UNCHANGED <<sessions, created, rootDone, calls, swDone, link,
                   linkTasks, bclose, env, panicked, obs>>

\* close(ch) of the Go runtime on a session queue.
ClosePhoneToAIChan(id) ==
    IF sess[id].phoneToAIClosed
    THEN /\ panicked' = "close of closed channel"
         /\ UNCHANGED <<sess, obs>>
    ELSE /\ sess' = [sess EXCEPT ![id].phoneToAIClosed = TRUE]
         /\ obs' = [obs EXCEPT !.sess[id].p2aCloses = @ + 1]
         /\ UNCHANGED panicked

CloseAIToPhoneChan(id) ==
    IF sess[id].aiToPhoneClosed
    THEN /\ panicked' = "close of closed channel"
         /\ UNCHANGED <<sess, obs>>
    ELSE /\ sess' = [sess EXCEPT ![id].aiToPhoneClosed = TRUE]
         /\ obs' = [obs EXCEPT !.sess[id].a2pCloses = @ + 1]
         /\ UNCHANGED panicked

\* CloseSession, line 504: close(session.phoneToAIChan).
CloseSessionClosePhoneToAI(t) ==
    /\ Running
    /\ closer[t].pc = "closePhoneToAI"
    /\ ClosePhoneToAIChan(closer[t].id)
    /\ closer' = [closer EXCEPT ![t].pc = "closeAIToPhone"]
    /\ UNCHANGED <<registryVars, calls, swDone, link, linkTasks, bclose, env>>

\* CloseSession, lines 505-510: close(session.aiToPhoneChan), delete the
\* entry, unlock, return nil.
CloseSessionCloseAIToPhone(t) ==
    /\ Running
    /\ closer[t].pc = "closeAIToPhone"
    /\ CloseAIToPhoneChan(closer[t].id)
    /\ IF panicked' = ""
       THEN /\ sessions' = sessions \ {closer[t].id}
            /\ mu' = Free
            /\ closer' = [closer EXCEPT ![t].pc = "idle", ![t].ret = "nil"]
       ELSE UNCHANGED <<sessions, mu, closer>>
    /\ UNCHANGED <<created, rootDone, calls, swDone, link, linkTasks, bclose,
                   env>>

(***************************************************************************)
(* AudioStreamBridge.Close.                                                *)
(***************************************************************************)
\* Close, line 515: bridge.cancel().
BridgeCloseCancel ==
    /\ Running
    /\ bclose = "idle"
    /\ bclose' = "lock"
    /\ rootDone' = TRUE
    /\ UNCHANGED <<sessions, created, mu, sess, calls, swDone, link,
                   linkTasks, closer, env, panicked, obs>>

\* Close, lines 517-518: bridge.mu.Lock(), released when Close returns.
BridgeCloseLock ==
    /\ Running
    /\ bclose = "lock"
    /\ mu = Free
    /\ mu' = CloseThread
    /\ bclose' = "range"
    /\ UNCHANGED <<sessions, created, rootDone, sess, calls, swDone, link,
                   linkTasks, closer, env, panicked, obs>>

\* Close, lines 521-523: the next session of the range is handed to
\* CloseSession, on this goroutine, with bridge.mu still held.
BridgeCloseRange ==
    /\ Running
    /\ bclose = "range"
    /\ closer[CloseThread].pc = "idle"
    /\ \E id \in sessions :
          closer' = [closer EXCEPT ![CloseThread] =
                        [pc |-> "enter", id |-> id, ret |-> "none"]]
    /\ UNCHANGED <<registryVars, sess, calls, swDone, link, linkTasks,
                   bclose, env, panicked, obs>>

\* Close, lines 525-527: the range is over; unlock and return nil.
BridgeCloseReturn ==
    /\ Running
    /\ bclose = "range"
    /\ closer[CloseThread].pc = "idle"
    /\ sessions = {}
    /\ mu' = Free
    /\ bclose' = "done"
    /\ UNCHANGED <<sessions, created, rootDone, sess, calls, swDone, link,
                   linkTasks, closer, env, panicked, obs>>

(***************************************************************************)
(* SignalWireCallSession: writes to the WebSocket.                         *)
(***************************************************************************)
\* cs.Conn.WriteMessage: an error once the connection is closed, otherwise
\* the message goes out; a message that goes out while cs.Closed is true is
\* recorded.
ConnWrite(l, kind) ==
    IF link[l].connClosed
    THEN obs
    ELSE [obs EXCEPT !.link[l].lateWrites =
              IF link[l].Closed THEN @ \cup {kind} ELSE @,
          !.link[l].wsMedia =
              IF kind = "media" THEN Append(@, wr[l].chunk) ELSE @]

\* The guard of SendEvent and of streamAudioToSignalWire, under cs.mu.RLock:
\* "session closed" when cs.Closed.
SessionClosedError(l) == link[l].Closed

(***************************************************************************)
(* SignalWireCallSession.Close, lines 434-460.  The caller th holds cs.mu  *)
(* from the first step to the last.                                        *)
(***************************************************************************)
\* What the caller does when Close returns: readPump goes back to reading
\* (the `closed` event) or ends (its deferred call); SignalWireAudioBridge.
\* Close goes on to the next call session.
CsCloseReturn(l, th) ==
    /\ csClose' = [csClose EXCEPT ![l][th] = "idle"]
    /\ rd' = IF th = ReaderThread
             THEN [rd EXCEPT ![l].pc = IF @ = "closing" THEN "read" ELSE "done"]
             ELSE rd
    /\ swclose' = IF th = BridgeThread
                  THEN [swclose EXCEPT !.todo = @ \ {l}]
                  ELSE swclose

\* A Close without the early return of lines 438-440.
AlreadyClosedIgnored(l) == FALSE

\* Lines 438-440: if cs.Closed { return nil }.
AlreadyClosed(l) == link[l].Closed

\* Lines 435-446: Lock; return nil if Closed; Closed = true, ClosedCount++,
\* close(cs.AudioInChan).
CsCloseEnter(l, th) ==
    /\ Running
    /\ csClose[l][th] = "enter"
    /\ link[l].mu = Free
    /\ IF AlreadyClosed(l)
       THEN /\ CsCloseReturn(l, th)
            /\ obs' = [obs EXCEPT !.link[l].closeCalls = @ + 1]
            /\ UNCHANGED <<link, panicked>>
       ELSE /\ IF link[l].AudioInClosed
               THEN /\ panicked' = "close of closed channel"
                    /\ UNCHANGED <<link, obs>>
               ELSE /\ link' = [link EXCEPT ![l].mu = th,
                                            ![l].Closed = TRUE,
                                            ![l].ClosedCount = @ + 1,
                                            ![l].AudioInClosed = TRUE]
                    /\ obs' = [obs EXCEPT !.link[l].inCloses = @ + 1]
                    /\ UNCHANGED panicked
            /\ csClose' = [csClose EXCEPT ![l][th] = "closeAudioOut"]
            /\ UNCHANGED <<rd, swclose>>
    /\ UNCHANGED <<registryVars, sess, calls, swDone, hs, wr, p2a, a2p, closer,
                   bclose, env>>

\* Line 447: close(cs.AudioOutChan).
CsCloseAudioOut(l, th) ==
    /\ Running
    /\ csClose[l][th] = "closeAudioOut"
    /\ IF link[l].AudioOutClosed
       THEN /\ panicked' = "close of closed channel"
            /\ UNCHANGED <<link, obs>>
       ELSE /\ link' = [link EXCEPT ![l].AudioOutClosed = TRUE]
            /\ obs' = [obs EXCEPT !.link[l].outCloses = @ + 1]
            /\ UNCHANGED panicked
    /\ csClose' = [csClose EXCEPT ![l][th] = "closeConn"]
    /\ UNCHANGED <<registryVars, sess, calls, swDone, hs, rd, wr, p2a, a2p,
                   closer, bclose, swclose, env>>

\* Lines 450-459: the close frame, cs.Conn.Close(), Unlock, return nil.
CsCloseConn(l, th) ==
    /\ Running
    /\ csClose[l][th] = "closeConn"
    /\ link' = [link EXCEPT ![l].connClosed = TRUE, ![l].mu = Free]
    /\ obs' = [obs EXCEPT !.link[l].connCloses = @ + 1,
                          !.link[l].closeCalls = @ + 1]
    /\ CsCloseReturn(l, th)
    /\ UNCHANGED <<registryVars, sess, calls, swDone, hs, wr, p2a, a2p, closer,
                   bclose, env, panicked>>

(***************************************************************************)
(* HandleWebSocketConnection, lines 74-133.                                *)
(***************************************************************************)
\* Lines 76-122: the session must be registered (GetSession, under
\* bridge.mu.RLock); the upgrade; the call session is registered under the
\* SignalWireAudioBridge lock; readPump and writePump are started.
AcceptWebSocket(l, id) ==
    /\ Running
    /\ hs[l] = "idle"
    /\ \A k \in Links : k < l => hs[k] # "idle"
    /\ mu = Free
    /\ id \in sessions
    /\ swclose.pc # "range"
    /\ link' = [link EXCEPT ![l] = NewCallSession(id)]
    /\ calls' = calls \cup {l}
    /\ hs' = [hs EXCEPT ![l] = "link"]
    /\ rd' = [rd EXCEPT ![l].pc = "read"]
    /\ wr' = [wr EXCEPT ![l].pc = "select"]
    /\ UNCHANGED <<registryVars, sess, swDone, p2a, a2p, closer, bclose,
                   swclose, csClose, env, panicked, obs>>

\* LinkSignalWireSession, lines 166-187, called at line 125; its error for a
\* session that is gone is not looked at.
LinkSignalWireSession(l) ==
    LET id == link[l].SessionID IN
    /\ Running
    /\ hs[l] = "link"
    /\ mu = Free
    /\ IF id \in sessions
       THEN /\ sess' = [sess EXCEPT ![id].SignalWireSession = l]
            /\ p2a' = [p2a EXCEPT ![l].pc = "start"]
            /\ a2p' = [a2p EXCEPT ![l].pc = "start"]
       ELSE UNCHANGED <<sess, p2a, a2p>>
    /\ hs' = [hs EXCEPT ![l] = "event"]
    /\ UNCHANGED <<registryVars, calls, swDone, link, rd, wr, closer, bclose,
                   swclose, csClose, env, panicked, obs>>

\* SendEvent("connected"), line 128: the check of cs.Closed, lines 407-412.
HandlerSendEventCheck(l) ==
    /\ Running
    /\ hs[l] = "event"
    /\ link[l].mu = Free
    /\ hs' = [hs EXCEPT ![l] = IF SessionClosedError(l) THEN "done" ELSE "write"]
    /\ UNCHANGED <<registryVars, sess, calls, swDone, link, rd, wr, p2a, a2p,
                   closer, bclose, swclose, csClose, env, panicked, obs>>

\* SendEvent, lines 426-428: the write under cs.mu.Lock.
HandlerSendEventWrite(l) ==
    /\ Running
    /\ hs[l] = "write"
    /\ link[l].mu = Free
    /\ obs' = ConnWrite(l, "event")
    /\ hs' = [hs EXCEPT ![l] = "done"]
    /\ UNCHANGED <<registryVars, sess, calls, swDone, link, rd, wr, p2a, a2p,
                   closer, bclose, swclose, csClose, env, panicked>>

(***************************************************************************)
(* readPump, lines 174-210, with handleSignalWireMessage.                  *)
(***************************************************************************)
\* ReadMessage fails: the peer closed, the read deadline passed, or the
\* connection was closed on this side.  The loop breaks and the deferred
\* cs.Close() runs.
ReadError(l) ==
    /\ Running
    /\ rd[l].pc = "read"
    /\ csClose[l][ReaderThread] = "idle"
    /\ rd' = [rd EXCEPT ![l].pc = "exiting"]
    /\ csClose' = [csClose EXCEPT ![l][ReaderThread] = "enter"]
    /\ UNCHANGED <<registryVars, sess, calls, swDone, link, hs, wr, p2a, a2p,
                   closer, bclose, swclose, env, panicked, obs>>

\* A message arrives (cs.mu is taken for LastActivityAt) and is one of
\* `connected`, `start`, `stop`: the handler answers with SendEvent.
ReadControl(l) ==
    /\ Running
    /\ rd[l].pc = "read"
    /\ ~link[l].connClosed
    /\ link[l].mu = Free
    /\ \E ev \in {"connected", "start", "stop"} :
          rd' = [rd EXCEPT ![l].pc = "event"]
    /\ UNCHANGED <<registryVars, sess, calls, swDone, link, hs, wr, p2a, a2p,
                   closer, bclose, swclose, csClose, env, panicked, obs>>

\* SendEvent of handleConnectedEvent/handleStartEvent/handleStopEvent: the
\* check of cs.Closed.
ReaderSendEventCheck(l) ==
    /\ Running
    /\ rd[l].pc = "event"
    /\ link[l].mu = Free
    /\ rd' = [rd EXCEPT ![l].pc =
                 IF SessionClosedError(l) THEN "read" ELSE "write"]
    /\ UNCHANGED <<registryVars, sess, calls, swDone, link, hs, wr, p2a, a2p,
                   closer, bclose, swclose, csClose, env, panicked, obs>>

\* ... and its write.
ReaderSendEventWrite(l) ==
    /\ Running
    /\ rd[l].pc = "write"
    /\ link[l].mu = Free
    /\ obs' = ConnWrite(l, "event")
    /\ rd' = [rd EXCEPT ![l].pc = "read"]
    /\ UNCHANGED <<registryVars, sess, calls, swDone, link, hs, wr, p2a, a2p,
                   closer, bclose, swclose, csClose, env, panicked>>

\* A `media` event of the inbound track arrives: handleMediaEvent, lines
\* 311-339, decodes the payload.
ReadMedia(l) ==
    /\ Running
    /\ rd[l].pc = "read"
    /\ ~link[l].connClosed
    /\ link[l].mu = Free
    /\ env.nextIn[l] <= MaxInFrames
    /\ rd' = [rd EXCEPT ![l].pc = "enqueue", ![l].msg = <<l, env.nextIn[l]>>]
    /\ env' = [env EXCEPT !.nextIn[l] = @ + 1]
    /\ UNCHANGED <<registryVars, sess, calls, swDone, link, hs, wr, p2a, a2p,
                   closer, bclose, swclose, csClose, panicked, obs>>

\* handleMediaEvent, lines 342-347: the send to cs.AudioInChan with the 10 ms
\* grace; a full queue drops the chunk and only logs.
ReaderEnqueue(l) ==
    /\ Running
    /\ rd[l].pc = "enqueue"
    /\ IF link[l].AudioInClosed
       THEN /\ panicked' = "send on closed channel"
            /\ UNCHANGED <<link, obs>>
       ELSE /\ UNCHANGED panicked
            /\ IF Len(link[l].AudioInChan) < LinkQueueCap
               THEN /\ link' = [link EXCEPT ![l].AudioInChan =
                                                Append(@, rd[l].msg)]
                    /\ UNCHANGED obs
               ELSE /\ obs' = [obs EXCEPT
                                 !.sess[link[l].SessionID].overflow = @ + 1]
                    /\ UNCHANGED link
    /\ rd' = [rd EXCEPT ![l].pc = "read", ![l].msg = Empty]
    /\ UNCHANGED <<registryVars, sess, calls, swDone, hs, wr, p2a, a2p, closer,
                   bclose, swclose, csClose, env>>

\* A `closed` event arrives: cs.Close(), line 277; the loop then reads on.
ReadClosed(l) ==
    /\ Running
    /\ rd[l].pc = "read"
    /\ ~link[l].connClosed
    /\ link[l].mu = Free
    /\ csClose[l][ReaderThread] = "idle"
    /\ rd' = [rd EXCEPT ![l].pc = "closing"]
    /\ csClose' = [csClose EXCEPT ![l][ReaderThread] = "enter"]
    /\ UNCHANGED <<registryVars, sess, calls, swDone, link, hs, wr, p2a, a2p,
                   closer, bclose, swclose, env, panicked, obs>>

(***************************************************************************)
(* writePump, lines 213-244, with streamAudioToSignalWire.                 *)
(***************************************************************************)
\* case <-cs.ctx.Done(): cs.ctx is the SignalWireAudioBridge context.
WriterCtxDone(l) ==
    /\ Running
    /\ wr[l].pc = "select"
    /\ swDone
    /\ wr' = [wr EXCEPT ![l].pc = "exit"]
    /\ UNCHANGED <<registryVars, sess, calls, swDone, link, hs, rd, p2a, a2p,
                   closer, bclose, swclose, csClose, env, panicked, obs>>

\* case audioChunk, ok := <-cs.AudioOutChan; a closed, drained queue ends the
\* pump.
WriterReceive(l) ==
    /\ Running
    /\ wr[l].pc = "select"
    /\ IF link[l].AudioOutChan # <<>>
       THEN /\ wr' = [wr EXCEPT ![l].pc = "check",
                                ![l].chunk = Head(link[l].AudioOutChan)]
            /\ link' = [link EXCEPT ![l].AudioOutChan = Tail(@)]
       ELSE /\ link[l].AudioOutClosed
            /\ wr' = [wr EXCEPT ![l].pc = "exit"]
            /\ UNCHANGED link
    /\ UNCHANGED <<registryVars, sess, calls, swDone, hs, rd, p2a, a2p, closer,
                   bclose, swclose, csClose, env, panicked, obs>>

\* streamAudioToSignalWire, lines 368-373: the check of cs.Closed; its error
\* ends the pump.
WriterStreamCheck(l) ==
    /\ Running
    /\ wr[l].pc = "check"
    /\ link[l].mu = Free
    /\ wr' = [wr EXCEPT ![l].pc =
                 IF SessionClosedError(l) THEN "exit" ELSE "write"]
    /\ UNCHANGED <<registryVars, sess, calls, swDone, link, hs, rd, p2a, a2p,
                   closer, bclose, swclose, csClose, env, panicked, obs>>

\* streamAudioToSignalWire, lines 394-402: the write under cs.mu.Lock; a
\* failed write ends the pump.
WriterStreamWrite(l) ==
    /\ Running
    /\ wr[l].pc = "write"
    /\ link[l].mu = Free
    /\ obs' = ConnWrite(l, "media")
    /\ wr' = [wr EXCEPT ![l].pc = IF link[l].connClosed THEN "exit" ELSE "select",
                        ![l].chunk = Empty]
    /\ UNCHANGED <<registryVars, sess, calls, swDone, link, hs, rd, p2a, a2p,
                   closer, bclose, swclose, csClose, env, panicked>>

\* case <-ticker.C, lines 237-241: the keepalive ping, written without cs.mu
\* and without a look at cs.Closed.
WriterPing(l) ==
    /\ Running
    /\ wr[l].pc = "select"
    /\ obs' = ConnWrite(l, "ping")
    /\ wr' = [wr EXCEPT ![l].pc = IF link[l].connClosed THEN "exit" ELSE "select"]
    /\ UNCHANGED <<registryVars, sess, calls, swDone, link, hs, rd, p2a, a2p,
                   closer, bclose, swclose, csClose, env, panicked>>

\* A write of writePump fails although the connection was not closed on this
\* side (the network, the peer): the error of streamAudioToSignalWire, lines
\* 227-230, or of the ping, lines 239-241, ends the pump.
WriteFailed(l) ==
    /\ Running
    /\ wr[l].pc \in {"select", "write"}
    /\ wr[l].pc = "write" => link[l].mu = Free
    /\ ~link[l].connClosed
    /\ ~obs.link[l].writeFailed
    /\ wr' = [wr EXCEPT ![l].pc = "exit", ![l].chunk = Empty]
    /\ obs' = [obs EXCEPT !.link[l].writeFailed = TRUE]
    /\ UNCHANGED <<registryVars, sess, calls, swDone, link, hs, rd, p2a, a2p,
                   closer, bclose, swclose, csClose, env, panicked>>

\* The deferred cs.Conn.Close() of lines 216-218.
WriterExit(l) ==
    /\ Running
    /\ wr[l].pc = "exit"
    /\ link' = [link EXCEPT ![l].connClosed = TRUE]
    /\ wr' = [wr EXCEPT ![l].pc = "done", ![l].chunk = Empty]
    /\ UNCHANGED <<registryVars, sess, calls, swDone, hs, rd, p2a, a2p, closer,
                   bclose, swclose, csClose, env, panicked, obs>>

(***************************************************************************)
(* SignalWireAudioBridge.Close, lines 489-504.                             *)
(***************************************************************************)
\* Line 490: bridge.cancel().
AudioBridgeCloseCancel ==
    /\ Running
    /\ swclose.pc = "idle"
    /\ swDone' = TRUE
    /\ swclose' = [swclose EXCEPT !.pc = "lock"]
    /\ UNCHANGED <<registryVars, sess, calls, link, hs, rd, wr, p2a, a2p,
                   closer, bclose, csClose, env, panicked, obs>>

\* Lines 492-496: Lock, and the range over bridge.calls begins.
AudioBridgeCloseLock ==
    /\ Running
    /\ swclose.pc = "lock"
    /\ swclose' = [pc |-> "range", todo |-> calls]
    /\ UNCHANGED <<registryVars, sess, calls, swDone, link, hs, rd, wr, p2a,
                   a2p, closer, bclose, csClose, env, panicked, obs>>

\* Line 497: session.Close() for the next call session.
AudioBridgeCloseRange ==
    /\ Running
    /\ swclose.pc = "range"
    /\ \A l \in Links : csClose[l][BridgeThread] = "idle"
    /\ \E l \in swclose.todo :
          csClose' = [csClose EXCEPT ![l][BridgeThread] = "enter"]
    /\ UNCHANGED <<registryVars, sess, calls, swDone, link, hs, rd, wr, p2a,
                   a2p, closer, bclose, swclose, env, panicked, obs>>

\* Lines 500-503: the map is replaced by an empty one; Unlock; return nil.
AudioBridgeCloseReturn ==
    /\ Running
    /\ swclose.pc = "range"
    /\ swclose.todo = {}
    /\ calls' = {}
    /\ swclose' = [swclose EXCEPT !.pc = "done"]
    /\ UNCHANGED <<registryVars, sess, swDone, link, hs, rd, wr, p2a, a2p,
                   closer, bclose, csClose, env, panicked, obs>>

CallSessionCloseNext ==
    \/ \E l \in Links, th \in LinkClosers : CsCloseEnter(l, th)
    \/ \E l \in Links, th \in LinkClosers : CsCloseAudioOut(l, th)
    \/ \E l \in Links, th \in LinkClosers : CsCloseConn(l, th)

(***************************************************************************)
(* The HTTP handlers of CallHandlers.  A request to the stream endpoint is *)
(* the session id in its path (the last path element) and its two query    *)
(* parameters; "" is an absent one.                                        *)
(***************************************************************************)

StatusSwitchingProtocols == 101
StatusBadRequest == 400
StatusNotFound == 404

\* HandleIncomingCall, lines 471-475:
\* wss://<host>/api/telephony/calls/stream/<sessionID>?call_sid=<CallSid>.
StreamURL(sessionID, callSID) ==
    [path |-> sessionID, session_id |-> "", call_sid |-> callSID]

\* The requests a client can make of the stream endpoint.
StreamRequests ==
    [path : SessionIDs \cup {""},
     session_id : SessionIDs \cup {""},
     call_sid : CallSids \cup {""}]

\* HandleWebSocketConnection, line 76: r.URL.Query().Get("session_id").
RequestSessionID(req) == req.session_id

\* HandleIncomingCall, lines 431-505, for a POST that carries CallSid:
\* uuid.New() names the session, CreateSession registers it, and the TwiML
\* answer carries the stream URL.
HandleIncomingCall(callSID) ==
    /\ Running
    /\ mu = Free
    /\ \E sessionID \in FreshIDs :
         /\ CreateSessionError(sessionID) = "nil"
         /\ sessions' = sessions \cup {sessionID}
         /\ created' = created \cup {sessionID}
         /\ sess' = [sess EXCEPT ![sessionID] = NewBridgeSession(TRUE)]
         /\ env' = [env EXCEPT !.urls = @ \cup {StreamURL(sessionID, callSID)}]
         /\ obs' = [obs EXCEPT !.sess[sessionID].createErr = "nil",
                               !.sess[sessionID].creates = @ + 1,
                               !.http.allocated[callSID] = sessionID]
    /\ UNCHANGED <<mu, rootDone, calls, swDone, link, taskVars, panicked>>

\* The answer of the stream endpoint, HandleWebSocketConnection lines 76-87.
StreamStatus(req) ==
    IF RequestSessionID(req) = "" THEN StatusBadRequest
    ELSE IF GetSession(RequestSessionID(req)) = "" THEN StatusNotFound
    ELSE StatusSwitchingProtocols

\* HandleCallStream, lines 574-582, passes the request on unchanged to
\* HandleWebSocketConnection, lines 74-123: 400, 404, or the upgrade, the
\* call session registered in bridge.calls and the two pumps started.
HandleCallStream(req) ==
    /\ Running
    /\ IF StreamStatus(req) = StatusBadRequest
       THEN /\ obs' = [obs EXCEPT !.http.response =
                          [req |-> req, status |-> StatusBadRequest,
                           returned |-> req \in env.urls,
                           registered |-> req.path \in sessions,
                           link |-> NoLink]]
            /\ UNCHANGED <<calls, link, hs, rd, wr>>
       ELSE /\ mu = Free
            /\ IF StreamStatus(req) = StatusNotFound
               THEN /\ obs' = [obs EXCEPT !.http.response =
                                  [req |-> req, status |-> StatusNotFound,
                                   returned |-> req \in env.urls,
                                   registered |-> req.path \in sessions,
                                   link |-> NoLink]]
                    /\ UNCHANGED <<calls, link, hs, rd, wr>>
               ELSE \E l \in Links :
                    /\ hs[l] = "idle"
                    /\ \A k \in Links : k < l => hs[k] # "idle"
                    /\ swclose.pc # "range"
                    /\ link' = [link EXCEPT ![l] =
                                   [NewCallSession(RequestSessionID(req))
                                       EXCEPT !.SignalWireCallSID = req.call_sid]]
                    /\ calls' = calls \cup {l}
                    /\ hs' = [hs EXCEPT ![l] = "link"]
                    /\ rd' = [rd EXCEPT ![l].pc = "read"]
                    /\ wr' = [wr EXCEPT ![l].pc = "select"]
                    /\ obs' = [obs EXCEPT !.http.response =
                                  [req |-> req,
                                   status |-> StatusSwitchingProtocols,
                                   returned |-> req \in env.urls,
                                   registered |-> req.path \in sessions,
                                   link |-> l]]
    /\ UNCHANGED <<registryVars, sess, swDone, p2a, a2p, closer, bclose,
                   swclose, csClose, env, panicked>>

\* The CallStatus values of a status webhook; "queued" stands for every value
\* the switch of HandleCallStateChange does not name.
CallStatuses ==
    {"ringing", "in-progress", "answered", "completed", "failed", "error",
     "no-answer", "busy", "canceled", "queued"}

\* HandleCallStateChange, lines 526-544: the CallState of a CallStatus.
CallStateOf(callStatus) ==
    CASE callStatus = "ringing" -> "StateRinging"
      [] callStatus \in {"in-progress", "answered"} -> "StateAnswered"
      [] callStatus = "completed" -> "StateCompleted"
      [] callStatus \in {"failed", "error"} -> "StateFailed"
      [] callStatus = "no-answer" -> "StateNoAnswer"
      [] callStatus = "busy" -> "StateBusy"
      [] callStatus = "canceled" -> "StateCancelled"
      [] OTHER -> "StateFailed"

\* HandleCallStateChange, lines 554-556.
CallEnded(newState) ==
    newState \in {"StateCompleted", "StateFailed", "StateNoAnswer",
                  "StateBusy", "StateCancelled"}

\* GetCallSessionBySignalWireSID, lines 475-486, then swSession.SessionID:
\* a range over bridge.calls, in the map's order, for a call session whose
\* SignalWireCallSID is the CallSid.
SessionsOfCall(callSID) ==
    {link[l].SessionID : l \in {k \in calls : link[k].SignalWireCallSID = callSID}}

\* HandleCallStateChange, lines 508-568, for a POST that carries CallSid, on
\* the goroutine c of the HTTP server: a CallStatus that ends the call calls
\* CloseSession for the session of the call session found, if one is found.
HandleCallStateChange(c, callSID, callStatus) ==
    /\ Running
    /\ closer[CloserThread(c)].pc = "idle"
    /\ swclose.pc # "range"
    /\ \E closing \in IF CallEnded(CallStateOf(callStatus))
                           /\ SessionsOfCall(callSID) # {}
                        THEN SessionsOfCall(callSID) ELSE {""} :
         /\ closer' = IF closing = "" THEN closer
                      ELSE [closer EXCEPT ![CloserThread(c)] =
                              [pc |-> "enter", id |-> closing, ret |-> "none"]]
         /\ obs' = [obs EXCEPT !.http.webhook =
                        [CallSid |-> callSID,
                         CallStatus |-> callStatus,
                         allocated |-> obs.http.allocated[callSID],
                         closing |-> closing]]
    /\ UNCHANGED <<registryVars, sess, calls, swDone, link, linkTasks,
                   bclose, env, panicked>>

(***************************************************************************)
(* The audio converter, audio-converter.go.  A buffer is a sequence of     *)
(* bytes 0..255; a result is the error ("nil" for none, "panic" for a      *)
(* run-time panic) and the bytes returned.                                 *)
(***************************************************************************)

Bytes == 0..255

\* int16(x): the low 16 bits of x, two's complement.
ToInt16(x) ==
    LET u == x % 65536 IN IF u >= 32768 THEN u - 65536 ELSE u

\* int16(binary.LittleEndian.Uint16(pcmData[i*2 : i*2+2])), i counted from 1.
SampleAt(pcmData, i) == ToInt16(pcmData[2 * i - 1] + 256 * pcmData[2 * i])

\* binary.LittleEndian.PutUint16(..., uint16(sample)) for every sample.
PutSamples(samples) ==
    [k \in 1..2 * Len(samples) |->
        LET u == samples[(k + 1) \div 2] % 65536
        IN  IF k % 2 = 1 THEN u % 256 ELSE u \div 256]

RECURSIVE BitOr(_, _)
\* a | b on non-negative integers.
BitOr(a, b) ==
    IF a = 0 THEN b
    ELSE IF b = 0 THEN a
    ELSE (IF a % 2 = 1 \/ b % 2 = 1 THEN 1 ELSE 0)
         + 2 * BitOr(a \div 2, b \div 2)

\* decodeMulaw, lines 91-104, for one byte.
MulawToLinear(mulawByte0) ==
    LET mulawByte == 255 - mulawByte0
        sign == IF mulawByte >= 128 THEN -1 ELSE 1
        exponent == (mulawByte \div 16) % 8
        mantissa == mulawByte % 16
    IN  ToInt16(sign * ToInt16(ToInt16(mantissa * 8 + 132) * 2^exponent))

\* decodeMulaw, lines 85-111.
decodeMulaw(mulawData) ==
    [err |-> "nil",
     out |-> PutSamples([i \in 1..Len(mulawData) |->
                           MulawToLinear(mulawData[i])])]

\* linearToMulaw, lines 135-169; byte(x) keeps the low 8 bits of x.
linearToMulaw(sample0) ==
    LET negative == sample0 < 0
        magnitude == IF negative THEN ToInt16(-sample0) ELSE sample0
        sample == IF magnitude > 32635 THEN 32635 ELSE magnitude
        fits == {exp \in 0..6 : sample <= 2^(exp + 5)}
        exponent == IF fits = {} THEN 7
                    ELSE CHOOSE exp \in fits : \A x \in fits : exp <= x
        mantissa == sample \div 2^(exponent + 1)
        mulawByte == BitOr((exponent * 16) % 256, mantissa % 256)
        signed == IF negative THEN BitOr(mulawByte, 128) ELSE mulawByte
    IN  255 - signed

\* encodeMulaw, lines 114-132.
encodeMulaw(pcmData) ==
    IF Len(pcmData) % 2 # 0
    THEN [err |-> "PCM data length must be even (16-bit samples)",
          out |-> <<>>]
    ELSE [err |-> "nil",
          out |-> [i \in 1..Len(pcmData) \div 2 |->
                      linearToMulaw(SampleAt(pcmData, i))]]

RECURSIVE Gcd(_, _)
Gcd(a, b) == IF b = 0 THEN a ELSE Gcd(b, a % b)

\* int16(x) of a float64 x = num / den that lies in the int16 range: the
\* fraction is dropped, towards zero.
Truncate(num, den) ==
    IF num >= 0 THEN num \div den ELSE -((-num) \div den)

\* The clamp to the 16-bit range, lines 209-213 and 280-284, and the int16
\* conversion after it, of the value num / den.
ClampToInt16(num, den) ==
    IF num > 32767 * den THEN 32767
    ELSE IF num < -32768 * den THEN -32768
    ELSE Truncate(num, den)

\* resamplePCM16, lines 188-217, output sample i (from 0) of numInputSamples
\* input samples.  The float64 ratio fromRate / toRate is p / q in lowest
\* terms; the rates of SampleRates make every product exact in float64.
ResampleAt(pcmData, numInputSamples, p, q, i) ==
    LET srcIndex0 == (i * p) \div q
        srcIndex == IF srcIndex0 >= numInputSamples - 1
                    THEN numInputSamples - 2 ELSE srcIndex0
        fraction == i * p - srcIndex * q        \* in units of 1 / q
        sample1 == SampleAt(pcmData, srcIndex + 1)
        sample2 == SampleAt(pcmData, srcIndex + 2)
    IN  ClampToInt16(sample1 * (q - fraction) + sample2 * fraction, q)

\* resamplePCM16, lines 173-222: a slice expression below index 0 panics.
resamplePCM16(pcmData, fromRate, toRate) ==
    IF Len(pcmData) % 2 # 0
    THEN [err |-> "PCM data length must be even (16-bit samples)",
          out |-> <<>>]
    ELSE LET numInputSamples == Len(pcmData) \div 2
             numOutputSamples == (numInputSamples * toRate) \div fromRate
             g == Gcd(fromRate, toRate)
         IN  IF numOutputSamples > 0 /\ numInputSamples < 2
             THEN [err |-> "panic", out |-> <<>>]
             ELSE [err |-> "nil",
                   out |-> PutSamples(
                       [k \in 1..numOutputSamples |->
                           ResampleAt(pcmData, numInputSamples,
                                      fromRate \div g, toRate \div g, k - 1)])]

\* ApplyGain, lines 263-290, with the gain gainQ / 4.
ApplyGain(pcmData, gainQ) ==
    IF Len(pcmData) % 2 # 0
    THEN [err |-> "PCM data length must be even (16-bit samples)",
          out |-> <<>>]
    ELSE [err |-> "nil",
          out |-> PutSamples([i \in 1..Len(pcmData) \div 2 |->
                                ClampToInt16(SampleAt(pcmData, i) * gainQ, 4)])]

\* MixAudio, lines 294-338: streams is a sequence of buffers.
MixAudio(streams) ==
    IF Len(streams) = 0
    THEN [err |-> "no audio streams provided", out |-> <<>>]
    ELSE LET length == Len(streams[1])
             first == {k \in 1..Len(streams) :
                         Len(streams[k]) # length \/ length % 2 # 0}
             bad == CHOOSE k \in first : \A j \in first : k <= j
             Sum[k \in 0..Len(streams), i \in 1..length \div 2] ==
                 IF k = 0 THEN 0
                 ELSE Sum[k - 1, i] + SampleAt(streams[k], i)
         IN  IF first # {}
             THEN [err |-> IF Len(streams[bad]) # length
                           THEN "all audio streams must have the same length"
                           ELSE "PCM data length must be even (16-bit samples)",
                   out |-> <<>>]
             ELSE [err |-> "nil",
                   out |-> PutSamples(
                       [i \in 1..length \div 2 |->
                           ClampToInt16(Sum[Len(streams), i], Len(streams))])]

\* The chunk size SplitAudioBuffer takes for one that is not positive.
DefaultChunkSize == 320

\* SplitAudioBuffer, lines 342-357: it returns chunks and no error.
SplitAudioBuffer(data, chunkSize0) ==
    LET chunkSize == IF chunkSize0 <= 0 THEN DefaultChunkSize ELSE chunkSize0
        numChunks == (Len(data) + chunkSize - 1) \div chunkSize
    IN  [err |-> "nil",
         out |-> [c \in 1..numChunks |->
                     SubSeq(data, (c - 1) * chunkSize + 1,
                            IF c * chunkSize > Len(data) THEN Len(data)
                            ELSE c * chunkSize)]]

\* MulawToPCM16kHz, lines 50-64: decodeMulaw, then resamplePCM16 from 8000
\* to 16000.
MulawToPCM16kHz(mulawData) ==
    resamplePCM16(decodeMulaw(mulawData).out, 8000, 16000)

\* The byte values the buffers of the converter's callers are made of.
PcmByteValues == {0, 1, 127, 128, 255}

BuffersUpTo(n) == UNION {[1..k -> PcmByteValues] : k \in 0..n}

\* The sample rates of the converter's callers: AudioFormatMulaw and
\* AudioFormatPCM, lines 12-13, and half the telephony rate.
SampleRates == {4000, 8000, 16000}

\* The gains of the callers of ApplyGain, in quarters.
GainsQ == {0, 2, 4, 6}

\* What is recorded of a call of a converter function.
Converted(fn, args, res) ==
    [fn |-> fn, args |-> args, err |-> res.err, out |-> res.out]

\* A run-time panic in a converter function ends the process.
PanicOf(res) ==
    IF res.err = "panic" THEN "slice bounds out of range" ELSE panicked

\* The inputs of a user of the converter: a behaviour makes one call.
Inputs(S) == IF obs.conv = NoConversion THEN S ELSE {}

\* The calls of the converter's functions by their users.
CallDecodeMulaw(mulawData) ==
    /\ Running
    /\ obs.conv = NoConversion
    /\ obs' = [obs EXCEPT !.conv = Converted("decodeMulaw", <<mulawData>>, decodeMulaw(mulawData))]
    /\ panicked' = PanicOf(decodeMulaw(mulawData))
    /\ UNCHANGED <<registryVars, sess, calls, swDone, link, taskVars, env>>

CallEncodeMulaw(pcmData) ==
    /\ Running
    /\ obs.conv = NoConversion
    /\ obs' = [obs EXCEPT !.conv = Converted("encodeMulaw", <<pcmData>>, encodeMulaw(pcmData))]
    /\ panicked' = PanicOf(encodeMulaw(pcmData))
    /\ UNCHANGED <<registryVars, sess, calls, swDone, link, taskVars, env>>

CallResamplePCM16(pcmData, fromRate, toRate) ==
    /\ Running
    /\ obs.conv = NoConversion
    /\ obs' = [obs EXCEPT !.conv = Converted("resamplePCM16", <<pcmData, fromRate, toRate>>, resamplePCM16(pcmData, fromRate, toRate))]
    /\ panicked' = PanicOf(resamplePCM16(pcmData, fromRate, toRate))
    /\ UNCHANGED <<registryVars, sess, calls, swDone, link, taskVars, env>>

CallMulawToPCM16kHz(mulawData) ==
    /\ Running
    /\ obs.conv = NoConversion
    /\ obs' = [obs EXCEPT !.conv = Converted("MulawToPCM16kHz", <<mulawData>>, MulawToPCM16kHz(mulawData))]
    /\ panicked' = PanicOf(MulawToPCM16kHz(mulawData))
    /\ UNCHANGED <<registryVars, sess, calls, swDone, link, taskVars, env>>

CallApplyGain(pcmData, gainQ) ==
    /\ Running
    /\ obs.conv = NoConversion
    /\ obs' = [obs EXCEPT !.conv = Converted("ApplyGain", <<pcmData, gainQ>>, ApplyGain(pcmData, gainQ))]
    /\ panicked' = PanicOf(ApplyGain(pcmData, gainQ))
    /\ UNCHANGED <<registryVars, sess, calls, swDone, link, taskVars, env>>

CallMixAudio(streams) ==
    /\ Running
    /\ obs.conv = NoConversion
    /\ obs' = [obs EXCEPT !.conv = Converted("MixAudio", <<streams>>, MixAudio(streams))]
    /\ panicked' = PanicOf(MixAudio(streams))
    /\ UNCHANGED <<registryVars, sess, calls, swDone, link, taskVars, env>>

CallSplitAudioBuffer(data, chunkSize) ==
    /\ Running
    /\ obs.conv = NoConversion
    /\ obs' = [obs EXCEPT !.conv = Converted("SplitAudioBuffer", <<data, chunkSize>>, SplitAudioBuffer(data, chunkSize))]
    /\ panicked' = PanicOf(SplitAudioBuffer(data, chunkSize))
    /\ UNCHANGED <<registryVars, sess, calls, swDone, link, taskVars, env>>

FrontDoorNext(n) ==
    \/ \E l \in 1..n, id \in SessionIDs : AcceptWebSocket(l, id)
    \/ \E l \in Links : LinkSignalWireSession(l)
    \/ \E l \in Links : HandlerSendEventCheck(l)
    \/ \E l \in Links : HandlerSendEventWrite(l)

\* ReadMessage on a connection that was closed on this side (by Close or by
\* writePump's deferred Conn.Close) returns an error at once.
ReadOnClosedConn(l) ==
    /\ link[l].connClosed
    /\ ReadError(l)

\* The read deadline.  env.deadline[l] is the time left before the deadline
\* readPump set with SetReadDeadline(now + 60 s), line 179, before its loop;
\* env.quiet[l] is the time since the last message of the peer, and stays at
\* DeadlineTicks once a whole period has passed without one.
Reading(l) == rd[l].pc = "read" /\ ~link[l].connClosed

\* Time passes for every link whose reader is in ReadMessage; it does not
\* pass beyond a deadline.
Tick ==
    /\ Running
    /\ \E l \in Links : Reading(l)
    /\ \A l \in Links : Reading(l) => env.deadline[l] > 0
    /\ env' = [env EXCEPT
                 !.deadline = [l \in Links |->
                                  IF Reading(l) THEN @[l] - 1 ELSE @[l]],
                 !.quiet = [l \in Links |->
                               IF Reading(l) /\ @[l] < DeadlineTicks
                               THEN @[l] + 1 ELSE @[l]]]
    /\ UNCHANGED <<registryVars, sess, calls, swDone, link, taskVars, panicked,
                   obs>>

\* What receiving a message does to the read deadline: the loop of lines
\* 192-208 stamps LastActivityAt and leaves the deadline as it is.
DeadlineAfterMessage(deadline) == deadline

\* A message arrives before the deadline, here one whose handling changes
\* nothing (an event the switch does not name).
ReceiveMessage(l) ==
    /\ Running
    /\ Reading(l)
    /\ link[l].mu = Free
    /\ env.deadline[l] > 0
    /\ env.quiet[l] \in 1..DeadlineTicks - 1
    /\ env' = [env EXCEPT !.quiet[l] = 0,
                          !.deadline[l] = DeadlineAfterMessage(@)]
    /\ UNCHANGED <<registryVars, sess, calls, swDone, link, taskVars, panicked,
                   obs>>

\* A ping of the peer arrives before the deadline: the handler of lines
\* 182-188 sets the deadline anew (and stamps LastActivityAt under cs.mu).
ReceivePing(l) ==
    /\ Running
    /\ Reading(l)
    /\ link[l].mu = Free
    /\ env.deadline[l] \in 1..DeadlineTicks - 1
    /\ env' = [env EXCEPT !.deadline[l] = DeadlineTicks]
    /\ UNCHANGED <<registryVars, sess, calls, swDone, link, taskVars, panicked,
                   obs>>

\* The deadline passes: ReadMessage returns a timeout error, the loop breaks
\* and the deferred cs.Close() runs.
ReadTimeout(l) ==
    /\ Running
    /\ Reading(l)
    /\ env.deadline[l] = 0
    /\ csClose[l][ReaderThread] = "idle"
    /\ rd' = [rd EXCEPT ![l].pc = "exiting"]
    /\ csClose' = [csClose EXCEPT ![l][ReaderThread] = "enter"]
    /\ env' = [env EXCEPT !.timedOut[l] = TRUE]
    /\ UNCHANGED <<registryVars, sess, calls, swDone, link, hs, wr, p2a, a2p,
                   closer, bclose, swclose, panicked, obs>>

\* The events of the provider the switch of handleSignalWireMessage names,
\* but for `closed` (ReadClosed).
StreamEvents == {"connected", "start", "media", "stop"}

\* handleConnectedEvent, handleStartEvent, handleStopEvent: the event each
\* answers with, lines 294, 304 and 358.
ReplyTo(msgType) ==
    CASE msgType = "connected" -> "connection_ready"
      [] msgType = "start" -> "stream_started"
      [] msgType = "stop" -> "stream_stopped"

\* readPump, lines 192-208, for one message of the peer, with
\* handleSignalWireMessage, lines 247-284, as one step: cs.mu is taken for
\* LastActivityAt, then the switch on the event alone.  `connected`, `start`
\* and `stop` are answered through SendEvent unless cs.Closed; an inbound
\* `media` is put on cs.AudioInChan, or dropped when that is full.
HandleSignalWireMessage(l, msgType) ==
    LET chunk == <<l, env.nextIn[l]>> IN
    /\ Running
    /\ rd[l].pc = "read"
    /\ ~link[l].connClosed
    /\ link[l].mu = Free
    /\ Len(obs.link[l].accepted) < MaxEvents
    /\ IF msgType = "media"
       THEN /\ env.nextIn[l] <= MaxInFrames
            /\ env' = [env EXCEPT !.nextIn[l] = @ + 1]
            /\ IF link[l].AudioInClosed
               THEN /\ panicked' = "send on closed channel"
                    /\ UNCHANGED <<link, obs>>
               ELSE /\ UNCHANGED panicked
                    /\ IF Len(link[l].AudioInChan) < LinkQueueCap
                       THEN /\ link' = [link EXCEPT ![l].AudioInChan =
                                                        Append(@, chunk)]
                            /\ obs' = [obs EXCEPT !.link[l].accepted =
                                                      Append(@, msgType)]
                       ELSE /\ obs' = [obs EXCEPT
                                 !.sess[link[l].SessionID].overflow = @ + 1]
                            /\ UNCHANGED link
       ELSE /\ obs' = IF SessionClosedError(l) THEN obs
                      ELSE [ConnWrite(l, "event") EXCEPT
                              !.link[l].accepted = Append(@, msgType),
                              !.link[l].sent = Append(@, ReplyTo(msgType))]
            /\ UNCHANGED <<link, env, panicked>>
    /\ UNCHANGED <<registryVars, sess, calls, swDone, hs, rd, wr, p2a, a2p,
                   closer, bclose, swclose, csClose>>

\* A text message of the peer, as far as handleSignalWireMessage and
\* handleMediaEvent look at it: whether it is JSON for an object, its `event`
\* ("absent": none, or not a string), whether `media` is an object, its `track`
\* and its `payload` ("absent": none, or not a string; "invalid": not base64).
Message(json, event, media, track, payload) ==
    [json |-> json, event |-> event, media |-> media, track |-> track,
     payload |-> payload]

Messages ==
    {Message(FALSE, "absent", FALSE, "absent", "absent"),
     Message(TRUE, "absent", FALSE, "absent", "absent"),
     Message(TRUE, "absent", TRUE, "inbound", "valid"),
     Message(TRUE, "mark", FALSE, "absent", "absent"),
     Message(TRUE, "connected", FALSE, "absent", "absent"),
     Message(TRUE, "start", FALSE, "absent", "absent"),
     Message(TRUE, "stop", FALSE, "absent", "absent"),
     Message(TRUE, "media", FALSE, "absent", "absent"),
     Message(TRUE, "media", TRUE, "absent", "valid"),
     Message(TRUE, "media", TRUE, "outbound", "valid"),
     Message(TRUE, "media", TRUE, "outbound", "invalid"),
     Message(TRUE, "media", TRUE, "inbound", "absent"),
     Message(TRUE, "media", TRUE, "inbound", "invalid"),
     Message(TRUE, "media", TRUE, "inbound", "valid")}

\* A handleMediaEvent that takes every track.
InboundTrackAny(message) == TRUE

\* Line 325: track != "inbound" returns nil.
InboundTrack(message) == message.track = "inbound"

\* A handleMediaEvent that returns no error.
MediaErrorNone(message) == "nil"

\* handleMediaEvent, lines 311-339: what it returns before its send.
MediaError(message) ==
    IF ~message.media THEN "media event missing payload"
    ELSE IF message.track = "absent" THEN "media event missing track"
    ELSE IF ~InboundTrack(message) THEN "nil"
    ELSE IF message.payload = "absent" THEN "media event missing payload"
    ELSE IF message.payload = "invalid" THEN "failed to decode audio payload"
    ELSE "nil"

\* handleSignalWireMessage, lines 247-284: what it returns.
MessageError(message) ==
    IF ~message.json THEN "failed to parse message"
    ELSE IF message.event = "absent" THEN "message missing event type"
    ELSE IF message.event = "media" THEN MediaError(message)
    ELSE "nil"

\* readPump, lines 192-208, for one message of the peer, parsed as the code
\* parses it, in one step.  An error is logged (line 207) and the loop reads
\* on; an event the switch does not name is logged; an inbound `media` reaches
\* the send of lines 342-347; `connected`, `start` and `stop` are answered.
HandleMessage(l, message) ==
    LET chunk == <<l, env.nextIn[l]>>
        err == MessageError(message)
        seenObs == [obs EXCEPT !.link[l].seen = @ + 1,
                               !.link[l].last = message,
                               !.link[l].logged =
                                   IF err = "nil" THEN @ ELSE @ \cup {err}]
    IN
    /\ Running
    /\ rd[l].pc = "read"
    /\ ~link[l].connClosed
    /\ link[l].mu = Free
    /\ obs.link[l].seen < MaxEvents
    /\ IF err # "nil" \/ message.event \notin StreamEvents
       THEN /\ obs' = seenObs
            /\ UNCHANGED <<link, env, panicked>>
       ELSE IF message.event = "media"
       THEN IF ~InboundTrack(message)
            THEN /\ obs' = seenObs
                 /\ UNCHANGED <<link, env, panicked>>
            ELSE /\ env.nextIn[l] <= MaxInFrames
                 /\ env' = [env EXCEPT !.nextIn[l] = @ + 1]
                 /\ IF link[l].AudioInClosed
                    THEN /\ panicked' = "send on closed channel"
                         /\ UNCHANGED <<link, obs>>
                    ELSE /\ UNCHANGED panicked
                         /\ IF Len(link[l].AudioInChan) < LinkQueueCap
                            THEN /\ link' = [link EXCEPT ![l].AudioInChan =
                                                        Append(@, chunk)]
                                 /\ obs' = [seenObs EXCEPT !.link[l].accepted =
                                               Append(@, message.event)]
                            ELSE /\ obs' = [seenObs EXCEPT
                                     !.sess[link[l].SessionID].overflow = @ + 1]
                                 /\ UNCHANGED link
       ELSE /\ obs' = IF SessionClosedError(l) THEN seenObs
                      ELSE [ConnWrite(l, "event") EXCEPT
                              !.link[l].seen = @ + 1,
                              !.link[l].last = message,
                              !.link[l].accepted = Append(@, message.event),
                              !.link[l].sent =
                                  Append(@, ReplyTo(message.event))]
            /\ UNCHANGED <<link, env, panicked>>
    /\ UNCHANGED <<registryVars, sess, calls, swDone, hs, rd, wr, p2a, a2p,
                   closer, bclose, swclose, csClose>>

MediaReaderNext ==
    \/ \E l \in Links : ReadError(l)
    \/ \E l \in Links : ReadMedia(l)
    \/ \E l \in Links : ReaderEnqueue(l)

ControlReaderNext ==
    \/ \E l \in Links : ReadControl(l)
    \/ \E l \in Links : ReaderSendEventCheck(l)
    \/ \E l \in Links : ReaderSendEventWrite(l)
    \/ \E l \in Links : ReadClosed(l)

WriterNext ==
    \/ \E l \in Links : WriterReceive(l)
    \/ \E l \in Links : WriterStreamCheck(l)
    \/ \E l \in Links : WriterStreamWrite(l)
    \/ \E l \in Links : WriterPing(l)
    \/ \E l \in Links : WriterExit(l)

AudioBridgeCloseNext ==
    \/ AudioBridgeCloseCancel
    \/ AudioBridgeCloseLock
    \/ AudioBridgeCloseRange
    \/ AudioBridgeCloseReturn

(***************************************************************************)
(* routePhoneToAI, lines 194-265.  The router that LinkSignalWireSession   *)
(* started for link l serves the session of l and reads the call session   *)
(* it finds in session.SignalWireSession.                                  *)
(***************************************************************************)
SessionOf(l) == link[l].SessionID

\* Lines 195-211: the linked call session is read; Streaming = true and
\* StartedAt are set.
PhoneToAIStart(l) ==
    LET id == SessionOf(l) IN
    /\ Running
    /\ p2a[l].pc = "start"
    /\ IF sess[id].SignalWireSession = NoLink
       THEN /\ p2a' = [p2a EXCEPT ![l].pc = "done"]
            /\ UNCHANGED sess
       ELSE /\ p2a' = [p2a EXCEPT ![l].pc = "loop",
                                  ![l].sw = sess[id].SignalWireSession]
            /\ sess' = [sess EXCEPT ![id].Streaming = TRUE,
                                    ![id].StartedAt = TRUE]
    /\ UNCHANGED <<registryVars, calls, swDone, link, hs, rd, wr, a2p, closer,
                   bclose, swclose, csClose, env, panicked, obs>>

\* case <-session.ctx.Done(), lines 223-225, and the deferred function of
\* lines 213-219: Streaming = false, EndedAt is set.
PhoneToAICtxDone(l) ==
    LET id == SessionOf(l) IN
    /\ Running
    /\ p2a[l].pc = "loop"
    /\ SessionCtxDone(id)
    /\ p2a' = [p2a EXCEPT ![l].pc = "done"]
    /\ sess' = [sess EXCEPT ![id].Streaming = FALSE, ![id].EndedAt = TRUE]
    /\ UNCHANGED <<registryVars, calls, swDone, link, hs, rd, wr, a2p, closer,
                   bclose, swclose, csClose, env, panicked, obs>>

\* case audioChunk := <-swSession.AudioInChan, lines 227-240: a chunk of
\* length 0 (all a closed, drained queue yields) is skipped.
PhoneToAIReceive(l) ==
    LET sw == p2a[l].sw IN
    /\ Running
    /\ p2a[l].pc = "loop"
    /\ IF link[sw].AudioInChan # <<>>
       THEN /\ link' = [link EXCEPT ![sw].AudioInChan = Tail(@)]
            /\ p2a' = IF Len(Head(link[sw].AudioInChan)) = 0
                      THEN p2a
                      ELSE [p2a EXCEPT ![l].pc = "send",
                                       ![l].chunk = Head(link[sw].AudioInChan)]
       ELSE /\ link[sw].AudioInClosed
            /\ UNCHANGED <<link, p2a>>
    /\ UNCHANGED <<registryVars, sess, calls, swDone, hs, rd, wr, a2p, closer,
                   bclose, swclose, csClose, env, panicked, obs>>

\* A send that left the counter of line 246 alone.
PhoneToAISentUncounted(m) == m

\* Metrics of lines 245-248 (sent) and 256-259 (dropped).
PhoneToAISent(m) ==
    [m EXCEPT !.PhoneToAIPacketsSent = @ + 1]

\* A drop that forgot the global counter of line 258.
PhoneToAIDroppedLocalOnly(m) ==
    [m EXCEPT !.PhoneToAIPacketsDropped = @ + 1]

PhoneToAIDropped(m) ==
    [m EXCEPT !.PhoneToAIPacketsDropped = @ + 1, !.DroppedPackets = @ + 1]

\* A full queue that made room by discarding its oldest chunk.
PhoneToAIOverflowDropOldest(q, chunk) == Append(Tail(q), chunk)

\* What a full session.phoneToAIChan keeps when the grace of line 254 ends.
PhoneToAIOverflow(q, chunk) == q

\* len(audioChunk), lines 247 and 306: every chunk carries FrameBytes bytes.
ChunkLen(chunk) == FrameBytes

\* Line 247: BytesReceived += int64(len(audioChunk)).
PhoneToAIBytes(m, chunk) ==
    [m EXCEPT !.BytesReceived = @ + ChunkLen(chunk)]

\* An updateLatency that kept the last latency as the maximum.
updateLatencyMaxLast(m, latencyUs) ==
    [m EXCEPT !.AverageLatencyUs =
                  IF @ = 0 THEN latencyUs ELSE (@ * 9 + latencyUs) \div 10,
              !.MaxLatencyUs = latencyUs]

\* updateLatency, lines 381-397, on the metrics of a session.
updateLatency(m, latencyUs) ==
    [m EXCEPT !.AverageLatencyUs =
                  IF @ = 0 THEN latencyUs ELSE (@ * 9 + latencyUs) \div 10,
              !.MaxLatencyUs = IF latencyUs > @ THEN latencyUs ELSE @]

\* The select of lines 243-262: the send to session.phoneToAIChan with the
\* 10 ms grace; latencyUs is time.Since(startTime).Microseconds(), line 251.
PhoneToAISendTimed(l, latencyUs) ==
    LET id == SessionOf(l)
        chunk == p2a[l].chunk IN
    /\ Running
    /\ p2a[l].pc = "send"
    /\ IF sess[id].phoneToAIClosed
       THEN /\ panicked' = "send on closed channel"
            /\ UNCHANGED <<sess, obs>>
       ELSE /\ UNCHANGED panicked
            /\ IF Len(sess[id].phoneToAIChan) < SessionQueueCap
               THEN /\ sess' = [sess EXCEPT
                                  ![id].phoneToAIChan = Append(@, chunk),
                                  ![id].Metrics =
                                      updateLatency(
                                          PhoneToAIBytes(PhoneToAISent(@), chunk),
                                          latencyUs)]
                    /\ obs' = [obs EXCEPT
                                  !.sess[id].offered = Append(@, chunk)]
               ELSE /\ sess' = [sess EXCEPT
                                  ![id].phoneToAIChan =
                                      PhoneToAIOverflow(@, chunk),
                                  ![id].Metrics = PhoneToAIDropped(@)]
                    /\ obs' = [obs EXCEPT
                                  !.sess[id].offered = Append(@, chunk),
                                  !.sess[id].overflow = @ + 1]
    /\ p2a' = [p2a EXCEPT ![l].pc = "loop", ![l].chunk = Empty]
    /\ UNCHANGED <<registryVars, calls, swDone, link, hs, rd, wr, a2p, closer,
                   bclose, swclose, csClose, env>>

\* The same step when the send took less than a microsecond.
PhoneToAISend(l) == PhoneToAISendTimed(l, 0)

(***************************************************************************)
(* routeAIToPhone, lines 268-324.                                          *)
(***************************************************************************)
\* Lines 269-276.
AIToPhoneStart(l) ==
    LET id == SessionOf(l) IN
    /\ Running
    /\ a2p[l].pc = "start"
    /\ a2p' = IF sess[id].SignalWireSession = NoLink
              THEN [a2p EXCEPT ![l].pc = "done"]
              ELSE [a2p EXCEPT ![l].pc = "loop",
                               ![l].sw = sess[id].SignalWireSession]
    /\ UNCHANGED <<registryVars, sess, calls, swDone, link, hs, rd, wr, p2a,
                   closer, bclose, swclose, csClose, env, panicked, obs>>

\* case <-session.ctx.Done(), lines 282-284.
AIToPhoneCtxDone(l) ==
    /\ Running
    /\ a2p[l].pc = "loop"
    /\ SessionCtxDone(SessionOf(l))
    /\ a2p' = [a2p EXCEPT ![l].pc = "done"]
    /\ UNCHANGED <<registryVars, sess, calls, swDone, link, hs, rd, wr, p2a,
                   closer, bclose, swclose, csClose, env, panicked, obs>>

\* case audioChunk := <-session.aiToPhoneChan, lines 286-299.
AIToPhoneReceive(l) ==
    LET id == SessionOf(l) IN
    /\ Running
    /\ a2p[l].pc = "loop"
    /\ IF sess[id].aiToPhoneChan # <<>>
       THEN /\ sess' = [sess EXCEPT ![id].aiToPhoneChan = Tail(@)]
            /\ a2p' = IF Len(Head(sess[id].aiToPhoneChan)) = 0
                      THEN a2p
                      ELSE [a2p EXCEPT ![l].pc = "send",
                                       ![l].chunk = Head(sess[id].aiToPhoneChan)]
       ELSE /\ sess[id].aiToPhoneClosed
            /\ UNCHANGED <<sess, a2p>>
    /\ UNCHANGED <<registryVars, calls, swDone, link, hs, rd, wr, p2a, closer,
                   bclose, swclose, csClose, env, panicked, obs>>

\* Metrics of lines 304-307 (sent) and 315-318 (dropped).
AIToPhoneSent(m) ==
    [m EXCEPT !.AIToPhonePacketsSent = @ + 1]

AIToPhoneDropped(m) ==
    [m EXCEPT !.AIToPhonePacketsDropped = @ + 1, !.DroppedPackets = @ + 1]

\* What a full swSession.AudioOutChan keeps when the grace of line 313 ends.
AIToPhoneOverflow(q, chunk) == q

\* Line 306: BytesSent += int64(len(processedAudio)); processOutgoingAudio,
\* lines 342-350, returns the chunk as it is.
AIToPhoneBytes(m, chunk) ==
    [m EXCEPT !.BytesSent = @ + ChunkLen(chunk)]

\* The select of lines 302-321: the send to swSession.AudioOutChan with the
\* 10 ms grace; latencyUs is time.Since(startTime).Microseconds(), line 310.
AIToPhoneSendTimed(l, latencyUs) ==
    LET id == SessionOf(l)
        sw == a2p[l].sw
        chunk == a2p[l].chunk IN
    /\ Running
    /\ a2p[l].pc = "send"
    /\ IF link[sw].AudioOutClosed
       THEN /\ panicked' = "send on closed channel"
            /\ UNCHANGED <<sess, link, obs>>
       ELSE /\ UNCHANGED panicked
            /\ IF Len(link[sw].AudioOutChan) < LinkQueueCap
               THEN /\ link' = [link EXCEPT ![sw].AudioOutChan = Append(@, chunk)]
                    /\ sess' = [sess EXCEPT ![id].Metrics =
                                    updateLatency(
                                        AIToPhoneBytes(AIToPhoneSent(@), chunk),
                                        latencyUs)]
                    /\ UNCHANGED obs
               ELSE /\ link' = [link EXCEPT ![sw].AudioOutChan =
                                                AIToPhoneOverflow(@, chunk)]
                    /\ sess' = [sess EXCEPT ![id].Metrics = AIToPhoneDropped(@)]
                    /\ obs' = [obs EXCEPT !.sess[id].overflow = @ + 1]
    /\ a2p' = [a2p EXCEPT ![l].pc = "loop", ![l].chunk = Empty]
    /\ UNCHANGED <<registryVars, calls, swDone, hs, rd, wr, p2a, closer, bclose,
                   swclose, csClose, env>>

\* The same step when the send took less than a microsecond.
AIToPhoneSend(l) == AIToPhoneSendTimed(l, 0)

\* updateLatency, lines 381-397, called with a latency of its caller's
\* choosing on a session CreateSession made.
UpdateLatency(id, latencyUs) ==
    /\ Running
    /\ id \in created
    /\ Len(obs.sess[id].latencies) < MaxObservations
    /\ sess' = [sess EXCEPT ![id].Metrics = updateLatency(@, latencyUs)]
    /\ obs' = [obs EXCEPT !.sess[id].latencies = Append(@, latencyUs)]
    /\ UNCHANGED <<registryVars, calls, swDone, link, taskVars, env, panicked>>

(***************************************************************************)
(* The pipeline, through the channel accessors of lines 357-374.  The      *)
(* accessors hand out the channels of a registered session and change no   *)
(* state; the pipeline is taken to have fetched both handles while the     *)
(* session was registered, and it keeps them after the session is closed.  *)
(***************************************************************************)
\* The pipeline receives from the handle of GetPhoneToAIChannel.
PipelineReceive(id) ==
    /\ Running
    /\ id \in created
    /\ sess[id].phoneToAIChan # <<>>
    /\ sess' = [sess EXCEPT ![id].phoneToAIChan = Tail(@)]
    /\ obs' = [obs EXCEPT !.sess[id].delivered =
                              Append(@, Head(sess[id].phoneToAIChan))]
    /\ UNCHANGED <<registryVars, calls, swDone, link, taskVars, env, panicked>>

\* The pipeline sends on the handle of GetAIToPhoneChannel (a plain,
\* blocking channel send).
PipelineSend(id) ==
    LET chunk == <<0, env.nextOut[id]>> IN
    /\ Running
    /\ id \in created
    /\ env.nextOut[id] <= MaxOutFrames
    /\ IF sess[id].aiToPhoneClosed
       THEN /\ panicked' = "send on closed channel"
            /\ UNCHANGED <<sess, env, obs>>
       ELSE /\ Len(sess[id].aiToPhoneChan) < SessionQueueCap
            /\ sess' = [sess EXCEPT ![id].aiToPhoneChan = Append(@, chunk)]
            /\ env' = [env EXCEPT !.nextOut[id] = @ + 1]
            /\ UNCHANGED <<panicked, obs>>
    /\ UNCHANGED <<registryVars, calls, swDone, link, taskVars>>

RouterNext ==
    \/ \E l \in Links : PhoneToAIStart(l)
    \/ \E l \in Links : PhoneToAICtxDone(l)
    \/ \E l \in Links : PhoneToAIReceive(l)
    \/ \E l \in Links : PhoneToAISend(l)
    \/ \E l \in Links : AIToPhoneStart(l)
    \/ \E l \in Links : AIToPhoneCtxDone(l)
    \/ \E l \in Links : AIToPhoneReceive(l)
    \/ \E l \in Links : AIToPhoneSend(l)

PipelineNext ==
    \/ \E id \in SessionIDs : PipelineReceive(id)
    \/ \E id \in SessionIDs : PipelineSend(id)

CloseSessionNext ==
    \/ \E t \in CloseCallers : CloseSessionEnter(t)
    \/ \E t \in CloseCallers : CloseSessionClosePhoneToAI(t)
    \/ \E t \in CloseCallers : CloseSessionCloseAIToPhone(t)

BridgeCloseNext ==
    \/ BridgeCloseCancel
    \/ BridgeCloseLock
    \/ BridgeCloseRange
    \/ BridgeCloseReturn

(***************************************************************************)
(* Specifications.  Each follows the same program from the same initial    *)
(* state and differs in which callers and tasks take part.                 *)
(***************************************************************************)
\* One call and its data plane: one WebSocket, its pumps and routers, the
\* pipeline, a status webhook closing the session, the peer closing the
\* connection.
Next ==
    \/ \E id \in FreshIDs : CreateSession(id)
    \/ \E id \in SessionIDs : CallCloseSession(1, id)
    \/ CloseSessionNext
    \/ FrontDoorNext(OneCall)
    \/ CallSessionCloseNext
    \/ MediaReaderNext
    \/ WriterNext
    \/ RouterNext
    \/ PipelineNext

Spec == Init /\ [][Next]_vars

\* Teardown of the registry: concurrent CloseSession callers and
\* AudioStreamBridge.Close against the routers and the pipeline of one call.
TeardownNext ==
    \/ \E id \in FreshIDs : CreateSession(id)
    \/ \E c \in Closers, id \in SessionIDs : CallCloseSession(c, id)
    \/ CloseSessionNext
    \/ BridgeCloseNext
    \/ FrontDoorNext(OneCall)
    \/ \E l \in Links : ReadMedia(l)
    \/ \E l \in Links : ReaderEnqueue(l)
    \/ RouterNext
    \/ PipelineNext

SpecTeardown == Init /\ [][TeardownNext]_vars

\* The link of one call: every caller of SignalWireCallSession.Close, both
\* pumps, every sender of events, and the outbound audio that feeds the
\* writer.
LinkNext ==
    \/ \E id \in FreshIDs : CreateSession(id)
    \/ FrontDoorNext(OneCall)
    \/ CallSessionCloseNext
    \/ MediaReaderNext
    \/ ControlReaderNext
    \/ WriterNext
    \/ \E l \in Links : WriterCtxDone(l)
    \/ AudioBridgeCloseNext
    \/ \E l \in Links : AIToPhoneStart(l)
    \/ \E l \in Links : AIToPhoneReceive(l)
    \/ \E l \in Links : AIToPhoneSend(l)
    \/ \E id \in SessionIDs : PipelineSend(id)

SpecLink == Init /\ [][LinkNext]_vars

\* AudioStreamBridge.Close and the callers of CloseSession alone, every
\* goroutine of them scheduled fairly (the Go scheduler runs each runnable
\* goroutine again and again).
CloseNext ==
    \/ \E id \in SessionIDs : CreateSession(id)
    \/ \E c \in Closers, id \in SessionIDs : CallCloseSession(c, id)
    \/ CloseSessionNext
    \/ BridgeCloseNext

SpecClose ==
    /\ Init
    /\ [][CloseNext]_vars
    /\ WF_vars(CloseSessionNext)
    /\ WF_vars(BridgeCloseNext)

\* Several WebSocket connections accepted for one session, no teardown: the
\* audio from the pipeline to the phone.
TwoLinksNext ==
    \/ \E id \in FreshIDs : CreateSession(id)
    \/ FrontDoorNext(MaxLinks)
    \/ \E l \in Links : AIToPhoneStart(l)
    \/ \E l \in Links : AIToPhoneReceive(l)
    \/ \E l \in Links : AIToPhoneSend(l)
    \/ \E l \in Links : WriterReceive(l)
    \/ \E l \in Links : WriterStreamCheck(l)
    \/ \E l \in Links : WriterStreamWrite(l)
    \/ \E id \in SessionIDs : PipelineSend(id)

SpecTwoLinks == Init /\ [][TwoLinksNext]_vars

\* One call from the carrier's side only: the events and media frames of one
\* WebSocket, the router towards the pipeline, the pipeline reading.  The
\* handler, the router, the reader's enqueue and a Close under way are
\* goroutines the scheduler keeps running; what the peer sends and whether the
\* pipeline reads is theirs to decide.
HappyPathNext ==
    \/ \E id \in FreshIDs : CreateSession(id)
    \/ FrontDoorNext(OneCall)
    \/ CallSessionCloseNext
    \/ MediaReaderNext
    \/ ControlReaderNext
    \/ \E l \in Links : PhoneToAIStart(l)
    \/ \E l \in Links : PhoneToAIReceive(l)
    \/ \E l \in Links : PhoneToAISend(l)
    \/ \E id \in SessionIDs : PipelineReceive(id)

SpecHappyPath ==
    /\ Init
    /\ [][HappyPathNext]_vars
    /\ \A l \in Links : WF_vars(LinkSignalWireSession(l))
    /\ \A l \in Links : WF_vars(ReaderEnqueue(l))
    /\ \A l \in Links : WF_vars(PhoneToAIStart(l))
    /\ \A l \in Links : WF_vars(PhoneToAIReceive(l))
    /\ \A l \in Links : WF_vars(PhoneToAISend(l))
    /\ WF_vars(CallSessionCloseNext)

\* Several WebSocket connections bound to one session over its lifetime, and
\* its teardown: the starts and the ends of the routers.
RelinkNext ==
    \/ \E id \in FreshIDs : CreateSession(id)
    \/ \E id \in SessionIDs : CallCloseSession(1, id)
    \/ CloseSessionNext
    \/ FrontDoorNext(MaxLinks)
    \/ \E l \in Links : PhoneToAIStart(l)
    \/ \E l \in Links : PhoneToAICtxDone(l)
    \/ \E l \in Links : AIToPhoneStart(l)
    \/ \E l \in Links : AIToPhoneCtxDone(l)

SpecRelink == Init /\ [][RelinkNext]_vars

\* The failures of one link: the reader's errors, a failing write, the Close
\* they lead to, with the router and the pipeline feeding the writer.  The
\* pumps, the router, the handler and a Close under way are goroutines the
\* scheduler keeps running, and the ticker of writePump keeps firing; what
\* the peer sends, when a read or a write fails and whether the pipeline
\* sends is theirs to decide.
FailureNext ==
    \/ \E id \in FreshIDs : CreateSession(id)
    \/ FrontDoorNext(OneCall)
    \/ CallSessionCloseNext
    \/ MediaReaderNext
    \/ ControlReaderNext
    \/ WriterNext
    \/ \E l \in Links : WriteFailed(l)
    \/ \E l \in Links : AIToPhoneStart(l)
    \/ \E l \in Links : AIToPhoneReceive(l)
    \/ \E l \in Links : AIToPhoneSend(l)
    \/ \E id \in SessionIDs : PipelineSend(id)

SpecFailure ==
    /\ Init
    /\ [][FailureNext]_vars
    /\ WF_vars(CallSessionCloseNext)
    /\ \A l \in Links : WF_vars(ReadOnClosedConn(l))
    /\ \A l \in Links : WF_vars(ReaderEnqueue(l))
    /\ \A l \in Links : WF_vars(ReaderSendEventCheck(l))
    /\ \A l \in Links : WF_vars(ReaderSendEventWrite(l))
    /\ \A l \in Links : WF_vars(WriterReceive(l))
    /\ \A l \in Links : WF_vars(WriterStreamCheck(l))
    /\ \A l \in Links : WF_vars(WriterStreamWrite(l))
    /\ \A l \in Links : WF_vars(WriterPing(l))
    /\ \A l \in Links : WF_vars(WriterExit(l))

\* One link and the messages of its peer, well-formed or not, each handled in
\* one step, with the router towards the pipeline.
ParseNext ==
    \/ \E id \in FreshIDs : CreateSession(id)
    \/ FrontDoorNext(OneCall)
    \/ \E l \in Links, message \in Messages : HandleMessage(l, message)
    \/ \E l \in Links : ReadClosed(l)
    \/ CallSessionCloseNext
    \/ \E l \in Links : PhoneToAIStart(l)
    \/ \E l \in Links : PhoneToAIReceive(l)
    \/ \E l \in Links : PhoneToAISend(l)

SpecParse == Init /\ [][ParseNext]_vars

\* One link against the clock: the messages and pings of the peer, the read
\* deadline, the Close it leads to, and the writer.
DeadlineNext ==
    \/ \E id \in FreshIDs : CreateSession(id)
    \/ FrontDoorNext(OneCall)
    \/ Tick
    \/ \E l \in Links : ReceiveMessage(l)
    \/ \E l \in Links : ReceivePing(l)
    \/ \E l \in Links : ReadTimeout(l)
    \/ CallSessionCloseNext
    \/ \E l \in Links : WriterReceive(l)
    \/ \E l \in Links : WriterPing(l)
    \/ \E l \in Links : WriterExit(l)

SpecDeadline == Init /\ [][DeadlineNext]_vars

\* The link of one call against SignalWireAudioBridge.Close, every goroutine
\* scheduled fairly: Close once it was called, a Close of the link under way,
\* the reader between two reads, the writer.  When Close is called, what the
\* peer sends and when it hangs up, and whether the pipeline sends, is not
\* the program's to decide.
SpecBridgeClose ==
    /\ Init
    /\ [][LinkNext]_vars
    /\ WF_vars(AudioBridgeCloseLock \/ AudioBridgeCloseRange
                  \/ AudioBridgeCloseReturn)
    /\ WF_vars(CallSessionCloseNext)
    /\ \A l \in Links : WF_vars(ReaderEnqueue(l))
    /\ \A l \in Links : WF_vars(ReaderSendEventCheck(l))
    /\ \A l \in Links : WF_vars(ReaderSendEventWrite(l))
    /\ \A l \in Links : WF_vars(WriterCtxDone(l))
    /\ \A l \in Links : WF_vars(WriterReceive(l))
    /\ \A l \in Links : WF_vars(WriterStreamCheck(l))
    /\ \A l \in Links : WF_vars(WriterStreamWrite(l))
    /\ \A l \in Links : WF_vars(WriterExit(l))

\* Cancellation: CloseSession and AudioStreamBridge.Close against the tasks of
\* one call, with no audio in flight.  Every goroutine that is running is
\* scheduled again and again; when a webhook calls CloseSession, when Close is
\* called, when a connection arrives and when the peer closes it or falls
\* silent is not the program's to decide.
CancelNext ==
    \/ \E id \in FreshIDs : CreateSession(id)
    \/ \E id \in SessionIDs : CallCloseSession(1, id)
    \/ CloseSessionNext
    \/ BridgeCloseNext
    \/ FrontDoorNext(OneCall)
    \/ \E l \in Links : PhoneToAIStart(l)
    \/ \E l \in Links : PhoneToAICtxDone(l)
    \/ \E l \in Links : AIToPhoneStart(l)
    \/ \E l \in Links : AIToPhoneCtxDone(l)
    \/ \E l \in Links : ReadError(l)
    \/ CallSessionCloseNext
    \/ \E l \in Links : WriterReceive(l)
    \/ \E l \in Links : WriterPing(l)
    \/ \E l \in Links : WriterExit(l)

SpecCancel ==
    /\ Init
    /\ [][CancelNext]_vars
    /\ WF_vars(CloseSessionNext)
    /\ WF_vars(BridgeCloseLock \/ BridgeCloseRange \/ BridgeCloseReturn)
    /\ WF_vars(CallSessionCloseNext)
    /\ \A l \in Links : WF_vars(LinkSignalWireSession(l))
    /\ \A l \in Links : WF_vars(HandlerSendEventCheck(l))
    /\ \A l \in Links : WF_vars(HandlerSendEventWrite(l))
    /\ \A l \in Links : WF_vars(PhoneToAIStart(l))
    /\ \A l \in Links : WF_vars(PhoneToAICtxDone(l))
    /\ \A l \in Links : WF_vars(AIToPhoneStart(l))
    /\ \A l \in Links : WF_vars(AIToPhoneCtxDone(l))
    /\ \A l \in Links : WF_vars(WriterReceive(l))
    /\ \A l \in Links : WF_vars(WriterPing(l))
    /\ \A l \in Links : WF_vars(WriterExit(l))

\* The latencies a timed step can measure.
LatenciesUs == 0..LatencyBoundUs

\* updateLatency on its own, on the metrics of a session.
LatencyNext ==
    \/ \E id \in FreshIDs : CreateSession(id)
    \/ \E id \in SessionIDs, latencyUs \in LatenciesUs :
          UpdateLatency(id, latencyUs)

SpecLatency == Init /\ [][LatencyNext]_vars

\* One call with both routers timed, the pipeline, and a CloseSession.
MetricsNext ==
    \/ \E id \in FreshIDs : CreateSession(id)
    \/ FrontDoorNext(OneCall)
    \/ MediaReaderNext
    \/ \E l \in Links : PhoneToAIStart(l)
    \/ \E l \in Links : PhoneToAIReceive(l)
    \/ \E l \in Links, latencyUs \in LatenciesUs :
          PhoneToAISendTimed(l, latencyUs)
    \/ \E l \in Links : PhoneToAICtxDone(l)
    \/ \E l \in Links : AIToPhoneStart(l)
    \/ \E l \in Links : AIToPhoneReceive(l)
    \/ \E l \in Links, latencyUs \in LatenciesUs :
          AIToPhoneSendTimed(l, latencyUs)
    \/ \E l \in Links : AIToPhoneCtxDone(l)
    \/ \E id \in SessionIDs : PipelineSend(id)
    \/ \E id \in SessionIDs : PipelineReceive(id)
    \/ \E id \in SessionIDs : CallCloseSession(1, id)
    \/ CloseSessionNext

SpecMetrics == Init /\ [][MetricsNext]_vars

\* The converter: one call of one of its functions.
CodecNext ==
    \/ \E y \in Inputs(Bytes) : CallDecodeMulaw(<<y>>)
    \/ \E pcmData \in Inputs(BuffersUpTo(MaxPcmBytes)) :
          CallEncodeMulaw(pcmData)
    \/ \E pcmData \in Inputs(BuffersUpTo(MaxPcmBytes)) :
          \E fromRate \in SampleRates, toRate \in SampleRates :
              CallResamplePCM16(pcmData, fromRate, toRate)
    \/ \E mulawData \in Inputs(BuffersUpTo(MaxMixBytes)) :
          CallMulawToPCM16kHz(mulawData)
    \/ \E pcmData \in Inputs(BuffersUpTo(MaxPcmBytes)), gainQ \in GainsQ :
          CallApplyGain(pcmData, gainQ)
    \/ \E n \in Inputs(0..MaxStreams) :
          \E streams \in [1..n -> BuffersUpTo(MaxMixBytes)] :
              CallMixAudio(streams)
    \/ \E data \in Inputs(BuffersUpTo(MaxMixBytes)) :
          \E chunkSize \in 0..MaxMixBytes :
              CallSplitAudioBuffer(data, chunkSize)

SpecCodec == Init /\ [][CodecNext]_vars

\* One link and the events of its peer, each handled in one step.
ProtocolNext ==
    \/ \E id \in FreshIDs : CreateSession(id)
    \/ FrontDoorNext(OneCall)
    \/ \E l \in Links, msgType \in StreamEvents :
          HandleSignalWireMessage(l, msgType)
    \/ \E l \in Links : ReadClosed(l)
    \/ CallSessionCloseNext
    \/ \E l \in Links : PhoneToAIStart(l)
    \/ \E l \in Links : PhoneToAIReceive(l)
    \/ \E l \in Links : PhoneToAISend(l)

SpecProtocol == Init /\ [][ProtocolNext]_vars

\* The registry alone: CreateSession with any id, the callers of
\* CloseSession, AudioStreamBridge.Close.
SpecRegistry == Init /\ [][CloseNext]_vars

\* The HTTP surface: the incoming-call webhook, the stream endpoint with its
\* handler, the status webhook and the CloseSession it calls.
HTTPNext ==
    \/ \E callSID \in CallSids : HandleIncomingCall(callSID)
    \/ \E req \in StreamRequests : HandleCallStream(req)
    \/ \E l \in Links : LinkSignalWireSession(l)
    \/ \E l \in Links : HandlerSendEventCheck(l)
    \/ \E l \in Links : HandlerSendEventWrite(l)
    \/ \E callSID \in CallSids, callStatus \in CallStatuses :
          HandleCallStateChange(1, callSID, callStatus)
    \/ CloseSessionNext

SpecHTTP ==
    /\ Init
    /\ [][HTTPNext]_vars
    /\ WF_vars(CloseSessionNext)
    /\ \A l \in Links : WF_vars(LinkSignalWireSession(l))
    /\ \A l \in Links : WF_vars(HandlerSendEventCheck(l))
    /\ \A l \in Links : WF_vars(HandlerSendEventWrite(l))

(***************************************************************************)
(* Properties.                                                             *)
(***************************************************************************)
Min(a, b) == IF a < b THEN a ELSE b

\* C1: under any interleaving of CloseSession calls and
\* AudioStreamBridge.Close, the registry closes each session's two queues at
\* most once, never a second time (no "close of closed channel"), and a
\* session that has been removed from the map had each queue closed exactly
\* once.
C1_QueuesClosedOnce ==
    /\ panicked # "close of closed channel"
    /\ \A s \in SessionIDs :
          /\ obs.sess[s].p2aCloses <= 1
          /\ obs.sess[s].a2pCloses <= 1
          /\ sess[s].phoneToAIClosed <=> obs.sess[s].p2aCloses = 1
          /\ sess[s].aiToPhoneClosed <=> obs.sess[s].a2pCloses = 1
          /\ (s \in created /\ s \notin sessions) =>
                /\ obs.sess[s].p2aCloses = 1
                /\ obs.sess[s].a2pCloses = 1

\* Two concurrent CloseSession calls for one session have both returned, one
\* with nil and one with "session not found", and Close has been called too.
C1_Witness ==
    /\ closer[CloserThread(1)].ret = "nil"
    /\ closer[CloserThread(2)].ret = "session not found"
    /\ closer[CloserThread(1)].id = closer[CloserThread(2)].id
    /\ bclose # "idle"

\* C2: AudioStreamBridge.Close, holding the registry with sessions still
\* registered, eventually returns with the root scope cancelled and the map
\* empty.
C2_CloseReturns ==
    (bclose = "range" /\ sessions # {})
        ~> (bclose = "done" /\ rootDone /\ sessions = {})

\* C3: no send is ever performed on a closed session queue: the process never
\* ends with "send on closed channel".
C3_NoSendOnClosedQueue == panicked # "send on closed channel"

\* A call of Close that finds the link closed already.
RepeatedClose(l) ==
    /\ link[l].Closed
    /\ link[l].mu = Free
    /\ obs'.link[l].closeCalls = obs.link[l].closeCalls + 1

\* C4: however often and from whichever goroutines
\* SignalWireCallSession.Close is called, AudioInChan, AudioOutChan and the
\* connection are each closed at most once, exactly once as soon as one call
\* has returned, and a call that finds Closed set changes nothing of the
\* link.
C4_CloseIdempotent ==
    /\ [](/\ panicked # "close of closed channel"
          /\ \A l \in Links :
                /\ obs.link[l].inCloses <= 1
                /\ obs.link[l].outCloses <= 1
                /\ obs.link[l].connCloses <= 1
                /\ link[l].ClosedCount <= 1
                /\ obs.link[l].closeCalls >= 1 =>
                      /\ obs.link[l].inCloses = 1
                      /\ obs.link[l].outCloses = 1
                      /\ obs.link[l].connCloses = 1)
    /\ [][\A l \in Links :
             RepeatedClose(l) =>
                 /\ link'[l] = link[l]
                 /\ panicked' = panicked
                 /\ obs'.link[l] = [obs.link[l] EXCEPT !.closeCalls = @ + 1]]_vars

\* Close has returned three times on one link: from the `closed` event, from
\* the reader's exit and from SignalWireAudioBridge.Close.
C4_Witness ==
    \E l \in Links :
        /\ obs.link[l].closeCalls = 3
        /\ rd[l].pc = "done"
        /\ l \notin swclose.todo
        /\ swclose.pc \in {"range", "done"}

\* C5: nothing is written to the WebSocket while Closed is true.
C5_NoWriteAfterClosed == \A l \in Links : obs.link[l].lateWrites = {}

\* C6: once both pumps of a link have ended, the session of the link has been
\* removed from the registry or a CloseSession call for it is under way.
C6_TeardownRequested ==
    \A l \in Links :
        (rd[l].pc = "done" /\ wr[l].pc = "done") =>
            \/ SessionOf(l) \notin sessions
            \/ \E t \in CloseCallers :
                  closer[t].pc # "idle" /\ closer[t].id = SessionOf(l)

\* Frames of one source appear in q in the order of their numbers.
InOrder(q) ==
    \A i, j \in 1..Len(q) :
        (i < j /\ q[i][1] = q[j][1]) => q[i][2] < q[j][2]

\* C7: the frames the pipeline reads from phoneToAIChan, and the media frames
\* written to each WebSocket, keep the order in which they were submitted.
C7_OrderPreserved ==
    /\ \A s \in SessionIDs : InOrder(obs.sess[s].delivered)
    /\ \A l \in Links : InOrder(obs.link[l].wsMedia)

\* C8: every frame discarded at a full queue of a call is counted once in a
\* directional dropped counter and once in DroppedPackets.
C8_EveryDropCounted ==
    \A s \in SessionIDs :
        /\ sess[s].Metrics.DroppedPackets = obs.sess[s].overflow
        /\ sess[s].Metrics.PhoneToAIPacketsDropped
             + sess[s].Metrics.AIToPhonePacketsDropped = obs.sess[s].overflow

\* C9: while nothing has been read from phoneToAIChan and no frame towards
\* the phone has been dropped, after the router has processed N frames the
\* queue holds the first min(N, K) of them, PhoneToAIPacketsSent is
\* min(N, K), and PhoneToAIPacketsDropped and DroppedPackets are both
\* N - min(N, K).
C9_BackpressureCounts ==
    \A s \in SessionIDs :
        LET N == Len(obs.sess[s].offered)
            K == SessionQueueCap
            m == sess[s].Metrics
        IN  (obs.sess[s].delivered = <<>> /\ m.AIToPhonePacketsDropped = 0) =>
                /\ sess[s].phoneToAIChan = SubSeq(obs.sess[s].offered, 1, Min(N, K))
                /\ m.PhoneToAIPacketsSent = Min(N, K)
                /\ m.PhoneToAIPacketsDropped = N - Min(N, K)
                /\ m.DroppedPackets = N - Min(N, K)

\* The router has processed more frames than the queue holds, with no
\* consumer.
C9_Witness ==
    \E s \in SessionIDs :
        /\ obs.sess[s].delivered = <<>>
        /\ Len(obs.sess[s].offered) > SessionQueueCap
        /\ sess[s].Metrics.PhoneToAIPacketsDropped = Len(obs.sess[s].offered) - SessionQueueCap
        /\ sess[s].Metrics.AIToPhonePacketsDropped = 0

\* A step that discards a frame at a full queue of session s.
DropStep(s) == obs'.sess[s].overflow = obs.sess[s].overflow + 1

\* C10: a step that drops a frame at a full queue leaves every queue as it
\* was, and the producer that held the frame is back at its loop without it;
\* no queue ever holds more than its capacity.
C10_DropNewestBounded ==
    /\ [](/\ \A s \in SessionIDs :
                /\ Len(sess[s].phoneToAIChan) <= SessionQueueCap
                /\ Len(sess[s].aiToPhoneChan) <= SessionQueueCap
          /\ \A l \in Links :
                /\ Len(link[l].AudioInChan) <= LinkQueueCap
                /\ Len(link[l].AudioOutChan) <= LinkQueueCap)
    /\ [][\A s \in SessionIDs :
             DropStep(s) =>
                 /\ sess'[s].phoneToAIChan = sess[s].phoneToAIChan
                 /\ sess'[s].aiToPhoneChan = sess[s].aiToPhoneChan
                 /\ \A l \in Links :
                       /\ link'[l].AudioInChan = link[l].AudioInChan
                       /\ link'[l].AudioOutChan = link[l].AudioOutChan
                 /\ \E l \in Links :
                       \/ /\ p2a[l].pc = "send"
                          /\ p2a'[l] = [p2a[l] EXCEPT !.pc = "loop",
                                                      !.chunk = Empty]
                       \/ /\ a2p[l].pc = "send"
                          /\ a2p'[l] = [a2p[l] EXCEPT !.pc = "loop",
                                                      !.chunk = Empty]
                       \/ /\ rd[l].pc = "enqueue"
                          /\ rd'[l] = [pc |-> "read", msg |-> Empty]]_vars

\* Frames have been dropped at a full phoneToAIChan and at a full
\* AudioOutChan, and both queues are still full.
C10_Witness ==
    \E s \in SessionIDs, l \in Links :
        /\ sess[s].Metrics.PhoneToAIPacketsDropped >= 1
        /\ sess[s].Metrics.AIToPhonePacketsDropped >= 1
        /\ Len(sess[s].phoneToAIChan) = SessionQueueCap
        /\ Len(link[l].AudioOutChan) = LinkQueueCap

\* C12: a CloseSession call that finds the session gone changes nothing in
\* the registry or the session, and once a call has closed a session the
\* session is inactive, its scope cancelled, both queues closed, the entry
\* removed, and GetSession returns nil from then on.
C12_CloseSessionIdempotent ==
    /\ [](/\ panicked # "close of closed channel"
          /\ \A s \in SessionIDs :
                (\/ s \in created /\ s \notin sessions
                 \/ \E t \in CloseCallers :
                       /\ closer[t].id = s
                       /\ closer[t].pc = "idle"
                       /\ closer[t].ret = "nil") =>
                    /\ ~sess[s].Active
                    /\ sess[s].cancelled
                    /\ sess[s].phoneToAIClosed
                    /\ sess[s].aiToPhoneClosed
                    /\ GetSession(s) = "")
    /\ [][\A t \in CloseCallers :
             (closer[t].pc = "enter" /\ closer'[t].pc = "idle") =>
                 /\ registryVars' = registryVars
                 /\ sess' = sess
                 /\ GetSession(closer[t].id)' = ""]_vars

\* Two CloseSession calls for one session have returned, the second after
\* the first had removed the session.
C12_Witness ==
    \E s \in SessionIDs :
        /\ s \in created
        /\ GetSession(s) = ""
        /\ closer[CloserThread(1)].id = s
        /\ closer[CloserThread(2)].id = s
        /\ closer[CloserThread(1)].ret = "nil"
        /\ closer[CloserThread(2)].ret = "session not found"
        /\ closer[CloserThread(2)].pc = "idle"

\* C13: a CloseSession call that returns for a session that has been closed
\* already returns no error.
C13_RepeatedCloseNoError ==
    [][\A t \in CloseCallers :
          (/\ closer[t].pc = "enter"
           /\ closer'[t].pc = "idle"
           /\ sess[closer[t].id].aiToPhoneClosed) =>
              closer'[t].ret = "nil"]_vars

\* C14: CreateSession for a registered id returns the duplicate error and
\* leaves the map and the session as they were; for any other id it returns
\* nil and registers that one session, active and not streaming.
C14_CreateSessionDuplicate ==
    /\ [](\A s \in SessionIDs :
             /\ obs.sess[s].createErr # "none" => s \in created
             /\ obs.sess[s].creates = IF s \in created THEN 1 ELSE 0)
    /\ [][\A s \in SessionIDs :
             obs'.sess[s].createErr # obs.sess[s].createErr =>
                 IF s \in sessions
                 THEN /\ obs'.sess[s].createErr = "session already exists"
                      /\ sessions' = sessions
                      /\ sess' = sess
                 ELSE /\ obs'.sess[s].createErr = "nil"
                      /\ sessions' = sessions \cup {s}
                      /\ sess'[s].Active
                      /\ ~sess'[s].Streaming
                      /\ \A o \in SessionIDs \ {s} : sess'[o] = sess[o]]_vars

\* CreateSession has been refused for an id that is registered.
C14_Witness ==
    \E s \in SessionIDs :
        /\ s \in sessions
        /\ obs.sess[s].createErr = "session already exists"
        /\ sess[s].Active

\* Inbound media frames received so far on link l.
FramesIn(l) == env.nextIn[l] - 1

\* Link l is the only link ever bound to its session.
OnlyLink(l) ==
    \A k \in Links : (hs[k] # "idle" /\ SessionOf(k) = SessionOf(l)) => k = l

\* The frames 1..n of link l, in order.
FirstFrames(l, n) == [i \in 1..n |-> <<l, i>>]

\* C11: for a session with one bound link that has received N media frames,
\* N no larger than either queue capacity, and then `closed`, eventually
\* exactly those N frames, in order, have been read from or wait in
\* phoneToAIChan, PhoneToAIPacketsSent is N, and no drop has been counted or
\* has happened; a session that a second link is bound to later is no
\* session with one bound link.
C11_HappyPathDelivers ==
    \A l \in Links :
        (/\ link[l].Closed
         /\ OnlyLink(l)
         /\ FramesIn(l) <= Min(SessionQueueCap, LinkQueueCap))
        ~> (LET s == IF hs[l] = "idle" THEN CHOOSE x \in SessionIDs : TRUE
                                        ELSE SessionOf(l)
                m == sess[s].Metrics
            IN  \/ ~OnlyLink(l)
                \/ /\ hs[l] # "idle"
                   /\ obs.sess[s].delivered \o sess[s].phoneToAIChan
                        = FirstFrames(l, FramesIn(l))
                   /\ m.PhoneToAIPacketsSent = FramesIn(l)
                   /\ m.PhoneToAIPacketsDropped = 0
                   /\ m.AIToPhonePacketsDropped = 0
                   /\ m.DroppedPackets = 0
                   /\ obs.sess[s].overflow = 0)

\* After two media frames and `closed` the pipeline has read both frames.
C11_Witness ==
    \E l \in Links :
        /\ link[l].Closed
        /\ rd[l].pc = "read"
        /\ FramesIn(l) = Min(SessionQueueCap, LinkQueueCap)
        /\ obs.sess[SessionOf(l)].delivered = FirstFrames(l, FramesIn(l))
        /\ sess[SessionOf(l)].Metrics.PhoneToAIPacketsSent = FramesIn(l)

\* C15: once EndedAt of a session is set, no step adds a frame to its
\* phoneToAIChan or to its aiToPhoneChan.
C15_NoEnqueueAfterEnded ==
    [][\A s \in SessionIDs :
          sess[s].EndedAt =>
              /\ Len(sess'[s].phoneToAIChan) <= Len(sess[s].phoneToAIChan)
              /\ Len(sess'[s].aiToPhoneChan) <= Len(sess[s].aiToPhoneChan)]_vars

\* C16: Streaming is true exactly when StartedAt is set and EndedAt is not.
C16_StreamingInterval ==
    \A s \in SessionIDs :
        sess[s].Streaming <=> (sess[s].StartedAt /\ ~sess[s].EndedAt)

\* The goroutine with program counter pc is not running.
Returned(pc) == pc \in {"off", "done"}

\* C17: after the root context of the registry is cancelled, every session
\* context is cancelled and, eventually, the reader, the writer and both
\* routers of every link have returned.
C17_RootCancelStopsTasks ==
    rootDone ~>
        (/\ \A s \in sessions : SessionCtxDone(s)
         /\ \A l \in Links :
               /\ Returned(rd[l].pc)
               /\ Returned(wr[l].pc)
               /\ Returned(p2a[l].pc)
               /\ Returned(a2p[l].pc))

\* C18: after CloseSession has cancelled the context of a session with a
\* bound link, eventually the reader and the writer of that link have
\* returned and the link is closed, its connection too.
C18_CloseSessionStopsLink ==
    \A s \in SessionIDs :
        (sess[s].cancelled /\ sess[s].SignalWireSession # NoLink) ~>
            (LET l == IF sess[s].SignalWireSession = NoLink
                      THEN CHOOSE k \in Links : TRUE
                      ELSE sess[s].SignalWireSession
             IN  /\ Returned(rd[l].pc)
                 /\ Returned(wr[l].pc)
                 /\ link[l].Closed
                 /\ link[l].connClosed)


\* C19: an upgrade request to the stream URL the incoming-call webhook
\* returned, made while the session in its path is registered, is upgraded
\* and the link made for it names that session; a request that names, in
\* its path and in its session_id parameter alike, a session that is not
\* registered is answered 404 and one with a session id in neither place
\* 400, and neither makes a link.
C19_StreamURLUpgrades ==
    LET r == obs.http.response IN
    r.status # 0 =>
      /\ (r.returned /\ r.registered) =>
            /\ r.status = StatusSwitchingProtocols
            /\ r.link # NoLink
            /\ link[r.link].SessionID = r.req.path
      /\ (r.req.path # "" /\ r.req.session_id = r.req.path /\ ~r.registered) =>
            (r.status = StatusNotFound /\ r.link = NoLink)
      /\ (r.req.path = "" /\ r.req.session_id = "") =>
            (r.status = StatusBadRequest /\ r.link = NoLink)

TerminalStatuses ==
    {"completed", "failed", "error", "no-answer", "busy", "canceled"}

NonTerminalStatuses == {"ringing", "in-progress", "answered"}

\* C20: after a status webhook with a terminal CallStatus for a CallSid the
\* incoming-call webhook allocated a session for, that session is eventually
\* closed and no longer registered; a status webhook with a non-terminal
\* CallStatus starts no CloseSession and removes no session.
C20_TerminalStatusClosesSession ==
    /\ (/\ obs.http.webhook.CallStatus \in TerminalStatuses
        /\ obs.http.webhook.allocated # "")
         ~> (/\ obs.http.webhook.allocated \notin sessions
             /\ \A s \in SessionIDs :
                   s = obs.http.webhook.allocated =>
                     /\ ~sess[s].Active
                     /\ sess[s].phoneToAIClosed
                     /\ sess[s].aiToPhoneClosed)
    /\ [][(/\ obs.http.webhook' # obs.http.webhook
           /\ obs.http.webhook'.CallStatus \in NonTerminalStatuses)
             => (closer' = closer /\ sessions' = sessions /\ sess' = sess)]_vars

RECURSIVE Ewma(_)
\* The average the claim gives for the observations xs: the first one, then
\* (old * 9 + x) \div 10 for each later one.
Ewma(xs) ==
    IF Len(xs) = 0 THEN 0
    ELSE IF Len(xs) = 1 THEN xs[1]
    ELSE (Ewma(SubSeq(xs, 1, Len(xs) - 1)) * 9 + xs[Len(xs)]) \div 10

\* The largest of the observations xs, 0 for none.
SeqMax(xs) ==
    IF Len(xs) = 0 THEN 0
    ELSE CHOOSE x \in {xs[i] : i \in 1..Len(xs)} :
           \A j \in 1..Len(xs) : xs[j] <= x

\* C21: after the latency observations x1..xn on a session, AverageLatencyUs
\* is x1 for n = 1 and (old * 9 + x) \div 10 after each later observation,
\* and MaxLatencyUs is the largest observation.
C21_LatencyEwma ==
    \A s \in SessionIDs :
        Len(obs.sess[s].latencies) >= 1 =>
            /\ sess[s].Metrics.AverageLatencyUs = Ewma(obs.sess[s].latencies)
            /\ sess[s].Metrics.MaxLatencyUs = SeqMax(obs.sess[s].latencies)

\* The counters of a session that only grow.
Counters ==
    {"PhoneToAIPacketsSent", "PhoneToAIPacketsDropped",
     "AIToPhonePacketsSent", "AIToPhonePacketsDropped",
     "DroppedPackets", "Overruns", "Underruns",
     "BytesReceived", "BytesSent", "MaxLatencyUs"}

\* C22: no step of a router or of an operation lowers a packet counter, a
\* drop counter, a byte counter or the maximum latency of a session.
C22_CountersMonotonic ==
    [][\A s \in SessionIDs : \A c \in Counters :
          sess'[s].Metrics[c] >= sess[s].Metrics[c]]_vars

\* Both byte counters have grown and a latency below the maximum came last.
C22_Witness ==
    \E s \in SessionIDs :
        /\ sess[s].Metrics.BytesReceived > 0
        /\ sess[s].Metrics.BytesSent > 0
        /\ sess[s].Metrics.PhoneToAIPacketsDropped > 0
        /\ sess[s].Metrics.MaxLatencyUs > sess[s].Metrics.AverageLatencyUs
        /\ sess[s].Metrics.AverageLatencyUs > 0

\* C23: encoding the PCM16 sample that decoding a mu-law byte y gave returns
\* y: encodeMulaw(decodeMulaw(<<y>>)) = <<y>>, for every y in 0..255.
C23_MulawRoundTrip ==
    obs.conv.fn = "decodeMulaw" =>
        LET encoded == encodeMulaw(obs.conv.out)
        IN  /\ obs.conv.err = "nil"
            /\ encoded.err = "nil"
            /\ encoded.out = obs.conv.args[1]

\* C24: resamplePCM16 of an even-length buffer of n samples, for any two
\* rates, returns without a panic a buffer of ((n * r2) \div r1) * 2 bytes.
C24_ResampleLength ==
    (obs.conv.fn = "resamplePCM16" /\ Len(obs.conv.args[1]) % 2 = 0) =>
        LET n == Len(obs.conv.args[1]) \div 2
            r1 == obs.conv.args[2]
            r2 == obs.conv.args[3]
        IN  /\ obs.conv.err = "nil"
            /\ Len(obs.conv.out) = ((n * r2) \div r1) * 2

\* x is the arithmetic mean of a and b, to within the rounding of one unit.
IsMean(x, a, b) == 2 * x - (a + b) \in -1..1

\* C25: resamplePCM16 of n samples from 8000 to 16000 returns 2n samples;
\* output 2k is input k, and output 2k + 1 is the mean of inputs k and k + 1
\* (for the last one, whose right neighbour is missing, the mean of the last
\* two inputs or the last input).  A buffer of one sample, which has no two
\* neighbouring samples, is C24's case.
C25_ResampleDoubling ==
    (/\ obs.conv.fn = "resamplePCM16"
     /\ Len(obs.conv.args[1]) % 2 = 0
     /\ Len(obs.conv.args[1]) # 2
     /\ obs.conv.args[2] = 8000
     /\ obs.conv.args[3] = 16000) =>
        LET in == obs.conv.args[1]
            out == obs.conv.out
            n == Len(in) \div 2
        IN  /\ obs.conv.err = "nil"
            /\ Len(out) = 4 * n
            /\ \A k \in 0..n - 1 :
                  /\ SampleAt(out, 2 * k + 1) = SampleAt(in, k + 1)
                  /\ IF k < n - 1
                     THEN IsMean(SampleAt(out, 2 * k + 2),
                                 SampleAt(in, k + 1), SampleAt(in, k + 2))
                     ELSE \/ SampleAt(out, 2 * k + 2) = SampleAt(in, k + 1)
                          \/ /\ n >= 2
                             /\ IsMean(SampleAt(out, 2 * k + 2),
                                       SampleAt(in, k), SampleAt(in, k + 1))

\* C26: ApplyGain, MixAudio and SplitAudioBuffer answer a PCM16 input of odd
\* length with an error and return no output.
C26_OddLengthRejected ==
    LET odd == CASE obs.conv.fn \in {"ApplyGain", "SplitAudioBuffer"} ->
                      Len(obs.conv.args[1]) % 2 = 1
                 [] obs.conv.fn = "MixAudio" ->
                      \E k \in 1..Len(obs.conv.args[1]) :
                          Len(obs.conv.args[1][k]) % 2 = 1
                 [] OTHER -> FALSE
    IN  odd => (obs.conv.err # "nil" /\ obs.conv.out = <<>>)

\* The transition table of the link: the state after `event` in `state`, or
\* "none" where the table has no such transition.
Table(state, event) ==
    CASE state = "CONNECTING" /\ event = "connected" -> "CONNECTED"
      [] state = "CONNECTED" /\ event = "start" -> "STREAMING"
      [] state = "STREAMING" /\ event = "media" -> "STREAMING"
      [] state = "STREAMING" /\ event = "stop" -> "STOPPING"
      [] OTHER -> "none"

RECURSIVE TableState(_)
\* The state the table gives after the events evs, from CONNECTING.
TableState(evs) ==
    IF Len(evs) = 0 THEN "CONNECTING"
    ELSE LET before == TableState(SubSeq(evs, 1, Len(evs) - 1))
         IN  IF before = "none" THEN "none"
             ELSE Table(before, evs[Len(evs)])

\* C27: the events a link has acted on, in order, follow the transition
\* table from CONNECTING: connected, start, any number of media, stop.  So a
\* media frame is enqueued only after connected and start and before stop,
\* and stream_started is sent only for a start received in CONNECTED.
C27_TransitionsInTable ==
    \A l \in Links : TableState(obs.link[l].accepted) # "none"

\* What has gone out on the WebSocket of link l, as far as it is recorded.
WrittenTo(l) ==
    <<obs.link[l].wsMedia, obs.link[l].sent, obs.link[l].lateWrites>>

\* C28: every write to a link's WebSocket is made holding the link's lock, so
\* no message goes out in a step taken while another thread holds cs.mu (the
\* thread in Close holds it up to its close frame): two writes never overlap.
C28_WritesHoldLock ==
    [][\A l \in Links :
          WrittenTo(l)' # WrittenTo(l) => link[l].mu = Free]_vars

\* C29: once a link has closed its own queues, no step of the router towards
\* the phone (which sends to AudioOutChan) and no step of the reader (which
\* sends to AudioInChan) ends in a send on the closed queue.
C29_NoSendAfterLinkClose ==
    [][\A l \in Links :
          \/ /\ a2p[l].pc = "send"
             /\ a2p'[l] # a2p[l]
             /\ link[a2p[l].sw].AudioOutClosed
          \/ /\ rd[l].pc = "enqueue"
             /\ rd'[l] # rd[l]
             /\ link[l].AudioInClosed
          => panicked' # "send on closed channel"]_vars

\* The link has failed: readPump has left its loop on a read error (peer
\* close, deadline, error), or a write of writePump has failed.
LinkFailed(l) == rd[l].pc = "exiting" \/ obs.link[l].writeFailed

\* C30: a read error, an expired read deadline, a close by the peer or a
\* failed write of writePump leads to the link being closed, its connection
\* closed and its reader and writer returned.
C30_FailureClosesLink ==
    \A l \in Links :
        LinkFailed(l) ~>
            /\ link[l].Closed
            /\ link[l].connClosed
            /\ Returned(rd[l].pc)
            /\ Returned(wr[l].pc)

\* C40: in every state of every session, DroppedPackets is the sum of the
\* drops of the two directions.
C40_DroppedIsSum ==
    \A s \in SessionIDs :
        sess[s].Metrics.DroppedPackets =
            sess[s].Metrics.PhoneToAIPacketsDropped
                + sess[s].Metrics.AIToPhonePacketsDropped

C40_Witness ==
    \E s \in SessionIDs :
        /\ sess[s].Metrics.PhoneToAIPacketsDropped > 0
        /\ sess[s].Metrics.AIToPhonePacketsDropped > 0
        /\ sess[s].Metrics.DroppedPackets = 2

\* The magnitude of a sample, clamped to 32635.
ClampedMagnitude(sample) ==
    LET magnitude == IF sample < 0 THEN -sample ELSE sample
    IN  IF magnitude > 32635 THEN 32635 ELSE magnitude

\* The exponents for which the shifted magnitude fits four bits.
FittingExponents(magnitude) ==
    {exponent \in 0..7 : magnitude \div 2^(exponent + 1) <= 15}

\* C34: for every sample encodeMulaw encodes, the bit-inverse of the byte
\* linearToMulaw returned holds the sign in bit 7, in bits 4-6 the smallest
\* exponent of 0..7 for which the clamped magnitude shifted right by
\* exponent + 1 fits four bits, and in bits 0-3 that shifted magnitude.
C34_MulawFields ==
    (obs.conv.fn = "encodeMulaw" /\ obs.conv.err = "nil") =>
        \A i \in 1..Len(obs.conv.out) :
            LET sample == SampleAt(obs.conv.args[1], i)
                magnitude == ClampedMagnitude(sample)
                fits == FittingExponents(magnitude)
                inverse == 255 - obs.conv.out[i]
            IN  /\ fits # {}
                /\ \E exponent \in fits :
                      /\ \A x \in fits : exponent <= x
                      /\ (inverse \div 16) % 8 = exponent
                      /\ inverse % 16 = magnitude \div 2^(exponent + 1)
                /\ inverse \div 128 = IF sample < 0 THEN 1 ELSE 0

\* The step handles a message on link l.
Handled(l) == obs'.link[l].seen = obs.link[l].seen + 1

\* A message that is not JSON, has no string `event`, or is a `media` event
\* without its media object, its track or its payload, or with a payload that
\* is not base64.
Malformed(message) ==
    \/ ~message.json
    \/ message.event = "absent"
    \/ /\ message.event = "media"
       /\ \/ ~message.media
          \/ message.track = "absent"
          \/ message.payload \in {"absent", "invalid"}

C31_NoTimeoutWhileReceiving ==
    \A l \in Links : env.timedOut[l] => env.quiet[l] = DeadlineTicks

\* The links whose router, of the given direction, is in its loop for s.
RoutersOf(router, s) ==
    {l \in Links : link[l].SessionID = s /\ router[l].pc \in {"loop", "send"}}

\* C35: for each session at most one router towards the pipeline and at most
\* one router towards the phone is in its loop, however many connections were
\* accepted for the session.
C35_OneRouterPerDirection ==
    \A s \in SessionIDs :
        /\ Cardinality(RoutersOf(p2a, s)) <= 1
        /\ Cardinality(RoutersOf(a2p, s)) <= 1

\* HandleWebSocketConnection has called LinkSignalWireSession for link l and
\* no router was started for it: the session was no longer registered.
LeftUnbound(l) ==
    /\ hs[l] \in {"event", "write", "done"}
    /\ p2a[l].pc = "off"
    /\ a2p[l].pc = "off"

\* C36: a link that LinkSignalWireSession could not bind, because its session
\* was closed after the lookup of HandleWebSocketConnection, is closed; it is
\* not left with its reader and writer running.
C36_UnboundLinkClosed ==
    \A l \in Links : LeftUnbound(l) ~> link[l].Closed

\* C38: every link in the call map of the SignalWireAudioBridge is open, but
\* for one whose Close is under way: GetCallSession returns no closed link.
C38_CallMapHoldsOpenLinks ==
    \A l \in calls :
        link[l].Closed => \E th \in LinkClosers : csClose[l][th] # "idle"

\* C37: once the link has closed its AudioInChan, the router towards the
\* pipeline that reads it forwards what is buffered and returns, Streaming
\* false and EndedAt set, with no call of CloseSession.
C37_RouterEndsOnClosedQueue ==
    \A l \in Links :
        (p2a[l].pc \in {"loop", "send"} /\ link[p2a[l].sw].AudioInClosed) ~>
            /\ p2a[l].pc = "done"
            /\ link[l].AudioInChan = <<>>
            /\ ~sess[SessionOf(l)].Streaming
            /\ sess[SessionOf(l)].EndedAt

\* C39: SignalWireAudioBridge.Close, once called, returns; the step in which
\* it returns leaves the call map empty and finds every link of the map
\* closed; and every writer that runs after the cancellation exits.
C39_BridgeCloseReturns ==
    /\ (swclose.pc = "lock") ~> (swclose.pc = "done")
    /\ [][(swclose.pc # "done" /\ swclose'.pc = "done") =>
              /\ calls' = {}
              /\ \A l \in calls : link'[l].Closed]_vars
    /\ \A l \in Links :
          (swDone /\ wr[l].pc # "off") ~> (wr[l].pc = "done")

=============================================================================
